---------------------------- MODULE Spec2Model ----------------------------
(***************************************************************************)
(* koishi-plugin-multi-bot-controller-chatluna-charon.                     *)
(*                                                                         *)
(* A model of the plugin's three stateful parts:                           *)
(*   - BotManager   (src/src/client/index.ts, the part after line 23):     *)
(*                  the persona registry, the runtime status map and       *)
(*                  syncFromMBC;                                           *)
(*   - RoomInterceptor (src/unnamed/part_000): the provisioning of one     *)
(*                  template room per bot, suspended at its database       *)
(*                  awaits;                                                *)
(*   - apply()      (src/unnamed/part_001): the timers of the scan and     *)
(*                  preset-load schedulers and the dispose handler.        *)
(*                                                                         *)
(* Strings that the code splits or concatenates are sequences of tokens;   *)
(* the token ":" is the separator character, every other token is a run    *)
(* of characters holding no ':'.                                           *)
(***************************************************************************)
EXTENDS Integers, Sequences, FiniteSets, Bags, TLC

VARIABLES
    config,               \* BotManager.config: the persona registry (an array)
    botStatusMap,         \* BotManager.botStatusMap: botId -> BotStatus
    chathub_room,         \* the database table 'chathub_room' (a bag of rows)
    chathub_room_member,  \* the database table 'chathub_room_member' (a bag of rows)
    runs,                 \* the handleBotStatusUpdate invocations in flight
    hooks,                \* RoomInterceptor.hooks: the disposers, by the listener each removes
    listeners,            \* the listeners the RoomInterceptor has subscribed on ctx (a bag)
    interceptorLog,       \* stop() has returned; the handlers the last status event invoked
    syncCall,             \* the last syncFromMBC call: its argument and what it returned
    scanTimer,            \* BotSchemaService constructor: the 500 ms scan timer
    debounceTimer,        \* BotSchemaService.debounceTimer
    unreferencedDebounceTimers, \* pending debounce timers debounceTimer no longer refers to
    scanLog,              \* the time since the last scheduleScan and when the debounced scans ran
    knownBots,            \* BotSchemaService.knownBots
    presetLoadTimer,      \* apply(): presetLoadTimer
    unreferencedPresetTimers, \* pending preset-load timers presetLoadTimer no longer refers to
    presetLoads,          \* preset-load timer callbacks awaiting loadPresets()
    presetTriggerLog,     \* whether a schedulePresetLoad call still waits for a loadPresets() to start
    modelLoads,           \* 'chatluna/ready' handlers awaiting loadModels()
    finalTimer,           \* the 1500 ms timer set on 'ready'
    manualDisposes,       \* apply(): manualDisposes, by the timer each entry clears
    disposed,             \* the 'dispose' handler has run
    statusLog,            \* the setBotStatus calls made on identities not removed since
    updateCall,           \* the last updateBotConfig call: its argument
    parseCall,            \* a parsePresetName call: its argument and what it returned
    idCalls,              \* getBotId calls: the arguments, the botId, its room name, parseBotId of it
    presetCache,          \* BotManager.presetCache.get('all') || []
    modelCache,           \* BotManager.modelCache.get('all') || []
    refreshRuns,          \* the loadPresets and loadModels invocations in flight
    refreshLog,           \* per catalog, the names the last refresh got and whether it notified
    presetRunLog          \* per loadPresets invocation, what the providers gave it and what it compared

provVars == <<config, botStatusMap, chathub_room, chathub_room_member, runs>>

timerVars ==
    <<scanTimer, debounceTimer, unreferencedDebounceTimers, scanLog, knownBots, presetLoadTimer, unreferencedPresetTimers,
      presetLoads, presetTriggerLog, modelLoads, finalTimer, manualDisposes, disposed>>

callVars == <<statusLog, updateCall, parseCall, idCalls>>

catalogVars == <<presetCache, modelCache, refreshRuns, refreshLog, presetRunLog>>

hookVars == <<hooks, listeners, interceptorLog>>

vars == <<provVars, syncCall, timerVars, callVars, catalogVars, hookVars>>

-----------------------------------------------------------------------------
(* Bounds of the model *)

\* handleBotStatusUpdate invocations that may be suspended at the same time
MaxRuns == 2

\* the longest bot list multi-bot-controller hands to syncFromMBC
MaxList == 2

\* the longest registry syncFromMBC is called on
MaxRegistry == 2

\* preset-load timers pending, callbacks awaiting loadPresets and handlers
\* that will still call schedulePresetLoad, taken together
MaxPresetWork == 2

\* setBotStatus calls kept in the log of calls
MaxStatusCalls == 3

\* the pieces of the longest preset name given to parsePresetName
MaxNameLen == 5

\* the scheduleScan calls of one burst are counted up to this number
MaxBurst == 2

\* the 'chatluna/ready' events delivered to the RoomInterceptor
MaxReady == 2

\* the pieces of the longest platform and of the longest selfId
MaxIdLen == 2

-----------------------------------------------------------------------------
(* Strings *)

Colon == ":"

\* the value of a destructured array element that does not exist
Undefined == <<"<undefined>">>

MinOf(S) == CHOOSE x \in S : \A y \in S : x <= y

\* String.prototype.split(sep): the segments between the separators
RECURSIVE split(_, _)
split(s, sep) ==
    IF \A i \in 1..Len(s) : s[i] # sep
    THEN <<s>>
    ELSE LET k == MinOf({i \in 1..Len(s) : s[i] = sep})
         IN  <<SubSeq(s, 1, k - 1)>> \o split(SubSeq(s, k + 1, Len(s)), sep)

\* String.prototype.split(sep, limit): at most the first `limit` segments
splitLimit(s, sep, limit) ==
    LET all == split(s, sep)
    IN  SubSeq(all, 1, IF Len(all) < limit THEN Len(all) ELSE limit)

-----------------------------------------------------------------------------
(* BotManager: identity keys *)

getBotId(platform, selfId) == platform \o <<Colon>> \o selfId

parseBotId(botId) ==
    LET parts == splitLimit(botId, Colon, 2)
    IN  [platform |-> parts[1],
         selfId   |-> IF Len(parts) >= 2 THEN parts[2] ELSE Undefined]

\* faulty variant: every preset counts as a ChatLuna preset
parsePresetName_chatLunaOnly(presetName) ==
    [name |-> presetName, source |-> <<"chatluna">>]

PresetSource_ChatLuna == <<"chatluna">>
PresetSource_Character == <<"character">>

parsePresetName(presetName) ==
    LET parts == splitLimit(presetName, Colon, 2)
    IN  IF /\ Len(parts) = 2
           /\ parts[1] \in {PresetSource_ChatLuna, PresetSource_Character}
        THEN [name |-> parts[2], source |-> parts[1]]
        ELSE [name |-> presetName, source |-> PresetSource_ChatLuna]

-----------------------------------------------------------------------------
(* BotManager: registry and status map *)

\* what Array.prototype.find returns when no entry matches
UndefinedConfig ==
    [botId |-> Undefined, enabled |-> FALSE, preset |-> <<>>, model |-> <<>>,
     chatMode |-> <<>>]

getBotConfig(botId) ==
    LET hits == {i \in 1..Len(config) : config[i].botId = botId}
    IN  IF hits = {} THEN UndefinedConfig ELSE config[MinOf(hits)]

hasBotStatus(botId) == botId \in DOMAIN botStatusMap

\* faulty variant: the update replaces the record
ObjectAssign_replace(current, status) == status

\* Object.assign({}, current, status)
ObjectAssign(current, status) ==
    [k \in DOMAIN current \cup DOMAIN status |->
        IF k \in DOMAIN status THEN status[k] ELSE current[k]]

\* Map.prototype.set
MapSet(m, key, value) ==
    [k \in DOMAIN m \cup {key} |-> IF k = key THEN value ELSE m[k]]

\* the map setBotStatus leaves behind
setBotStatus(m, botId, status) ==
    LET current == IF botId \in DOMAIN m
                   THEN m[botId]
                   ELSE [botId |-> botId,
                         platform |-> parseBotId(botId).platform,
                         initialized |-> FALSE]
    IN  MapSet(m, botId, ObjectAssign(current, status))

\* faulty variant: the status record of a removed entry is kept
MapDelete_keep(m, key) == m

\* Map.prototype.delete
MapDelete(m, key) == [k \in DOMAIN m \ {key} |-> m[k]]

\* syncFromMBC, lines 158-184: the pass over mbcBots from its k-th element on.
\* added and updated hold references into the array: here, positions of cfg.
RECURSIVE syncAddOrUpdate(_, _, _, _, _)
syncAddOrUpdate(cfg, mbcBots, k, added, updated) ==
    IF k > Len(mbcBots)
    THEN [config |-> cfg, added |-> added, updated |-> updated]
    ELSE LET mbcBot == mbcBots[k]
             botId  == getBotId(mbcBot.platform, mbcBot.selfId)
             hits   == {i \in 1..Len(cfg) : cfg[i].botId = botId}
         IN  IF hits = {}
             THEN LET newBot == [botId |-> botId, enabled |-> mbcBot.enabled,
                                 preset |-> <<>>, model |-> <<>>,
                                 chatMode |-> <<"chat">>]
                  IN  syncAddOrUpdate(Append(cfg, newBot), mbcBots, k + 1,
                                      Append(added, Len(cfg) + 1), updated)
             ELSE LET i == MinOf(hits)
                  IN  IF cfg[i].enabled # mbcBot.enabled
                      THEN syncAddOrUpdate([cfg EXCEPT ![i].enabled = mbcBot.enabled],
                                           mbcBots, k + 1, added, Append(updated, i))
                      ELSE syncAddOrUpdate(cfg, mbcBots, k + 1, added, updated)

\* lines 189-192: is the registry entry's identity in the list
existsInMBC(bot, mbcBots) ==
    LET id == parseBotId(bot.botId)
    IN  \E k \in 1..Len(mbcBots) :
            mbcBots[k].platform = id.platform /\ mbcBots[k].selfId = id.selfId

\* lines 187-200: the pass from position i down to the first
RECURSIVE syncRemove(_, _, _, _, _)
syncRemove(cfg, statusMap, mbcBots, i, removed) ==
    IF i < 1
    THEN [config |-> cfg, botStatusMap |-> statusMap, removed |-> removed]
    ELSE IF existsInMBC(cfg[i], mbcBots)
         THEN syncRemove(cfg, statusMap, mbcBots, i - 1, removed)
         ELSE syncRemove(SubSeq(cfg, 1, i - 1) \o SubSeq(cfg, i + 1, Len(cfg)),
                         MapDelete(statusMap, cfg[i].botId), mbcBots, i - 1,
                         Append(removed, cfg[i]))

\* faulty variant: the sync resets the model of every entry it keeps
syncFromMBC_clearModels(cfg, statusMap, mbcBots) ==
    LET pass1 == syncAddOrUpdate(cfg, mbcBots, 1, <<>>, <<>>)
        pass2 == syncRemove(pass1.config, statusMap, mbcBots, Len(pass1.config), <<>>)
    IN  [config       |-> [i \in DOMAIN pass2.config |->
                              [pass2.config[i] EXCEPT !.model = <<>>]],
         botStatusMap |-> pass2.botStatusMap,
         result       |-> [added   |-> [j \in 1..Len(pass1.added) |->
                                            pass1.config[pass1.added[j]]],
                           updated |-> [j \in 1..Len(pass1.updated) |->
                                            pass1.config[pass1.updated[j]]],
                           removed |-> pass2.removed]]

\* syncFromMBC(mbcBots) on registry cfg and status map statusMap: what it
\* leaves behind and what it returns
syncFromMBC(cfg, statusMap, mbcBots) ==
    LET pass1 == syncAddOrUpdate(cfg, mbcBots, 1, <<>>, <<>>)
        pass2 == syncRemove(pass1.config, statusMap, mbcBots, Len(pass1.config), <<>>)
    IN  [config       |-> pass2.config,
         botStatusMap |-> pass2.botStatusMap,
         result       |-> [added   |-> [j \in 1..Len(pass1.added) |->
                                            pass1.config[pass1.added[j]]],
                           updated |-> [j \in 1..Len(pass1.updated) |->
                                            pass1.config[pass1.updated[j]]],
                           removed |-> pass2.removed]]

NoCall == [mbcBots |-> <<>>, result |-> [added |-> <<>>, updated |-> <<>>, removed |-> <<>>],
           called |-> FALSE]

\* a call of syncFromMBC(mbcBots)
callSyncFromMBC(mbcBots) ==
    LET out == syncFromMBC(config, botStatusMap, mbcBots)
    IN  /\ config' = out.config
        /\ botStatusMap' = out.botStatusMap
        /\ syncCall' = [mbcBots |-> mbcBots, result |-> out.result, called |-> TRUE]
        /\ UNCHANGED <<chathub_room, chathub_room_member, runs>>

-----------------------------------------------------------------------------
(* RoomInterceptor *)

TemplateRoomPrefix == "TemplateRoom_"   \* the literal prefix of the room name

templateRoomName(botId) == <<TemplateRoomPrefix>> \o botId

\* String(error)
ErrorString == "Error: database"

\* a run's newRoom before line 138 has built it
NullRoom ==
    [roomId |-> 0, roomName |-> <<>>, roomMasterId |-> <<>>,
     conversationId |-> <<>>, preset |-> <<>>, model |-> <<>>,
     chatMode |-> <<>>, visibility |-> "", password |-> "",
     autoUpdate |-> FALSE]

\* The record store keeps a table as a bag of rows: it enforces no key and
\* promises no order. database.create adds one row.
dbCreate(table, row) == table (+) SetToBag({row})

\* database.get(table, {}): the rows as an array, in an order of the store's
RECURSIVE dbRows(_)
dbRows(table) ==
    IF BagToSet(table) = {}
    THEN <<>>
    ELSE LET row == CHOOSE x \in BagToSet(table) : TRUE
         IN  <<row>> \o dbRows(table (-) SetToBag({row}))

\* database.get('chathub_room', {roomName}): the rows with that name
dbGetByName(table, roomName) == {row \in BagToSet(table) : row.roomName = roomName}

\* rooms.reduce((max, room) => Math.max(max, room.roomId), 0)
RECURSIVE reduceMaxRoomId(_, _)
reduceMaxRoomId(rooms, max) ==
    IF rooms = <<>>
    THEN max
    ELSE reduceMaxRoomId(Tail(rooms),
                         IF Head(rooms).roomId > max THEN Head(rooms).roomId ELSE max)

\* faulty variant: the number of rooms taken for the largest roomId
maxRoomIdOf_count(rooms) == Len(rooms)

maxRoomIdOf(rooms) == reduceMaxRoomId(rooms, 0)

\* faulty variant: autoUpdate left at ChatLuna's default for a new room
newRoomOf_autoUpdateOn(botId, botConfig, selfId, maxRoomId) ==
    [roomId         |-> maxRoomId + 1,
     roomName       |-> templateRoomName(botId),
     roomMasterId   |-> selfId,
     conversationId |-> <<"bot_">> \o botId \o <<"_uuid">>,
     preset         |-> parsePresetName(botConfig.preset).name,
     model          |-> botConfig.model,
     chatMode       |-> IF botConfig.chatMode = <<>> THEN <<"chat">> ELSE botConfig.chatMode,
     visibility     |-> "template_clone",
     password       |-> "",
     autoUpdate     |-> TRUE]

\* the object literal of lines 138-151 (updatedTime, a wall-clock stamp no code
\* reads, is left out; the random suffix of conversationId is opaque)
newRoomOf(botId, botConfig, selfId, maxRoomId) ==
    [roomId         |-> maxRoomId + 1,
     roomName       |-> templateRoomName(botId),
     roomMasterId   |-> selfId,
     conversationId |-> <<"bot_">> \o botId \o <<"_uuid">>,
     preset         |-> parsePresetName(botConfig.preset).name,
     model          |-> botConfig.model,
     chatMode       |-> IF botConfig.chatMode = <<>> THEN <<"chat">> ELSE botConfig.chatMode,
     visibility     |-> "template_clone",
     password       |-> "",
     autoUpdate     |-> FALSE]

newMemberOf(selfId, newRoom) ==
    [userId |-> selfId, roomId |-> newRoom.roomId, roomPermission |-> "owner"]

\* a handleBotStatusUpdate invocation suspended at a database await
Run(pc, botConfig, newRoom) ==
    [pc |-> pc, botId |-> botConfig.botId, botConfig |-> botConfig,
     newRoom |-> newRoom]

Resume(r, pc, newRoom) ==
    runs' = (runs (-) SetToBag({r})) (+) SetToBag({Run(pc, r.botConfig, newRoom)})

\* faulty variant: the handler forgets its line 84
Return_noMark(r, status) ==
    /\ botStatusMap' = setBotStatus(botStatusMap, r.botId, status)
    /\ runs' = runs (-) SetToBag({r})

\* createTemplateRoomForBot returns after a last setBotStatus(botId, status);
\* the handler, resumed in the same turn, goes on to its line 84
Return(r, status) ==
    /\ botStatusMap' =
           setBotStatus(setBotStatus(botStatusMap, r.botId, status),
                        r.botId, [initialized |-> TRUE])
    /\ runs' = runs (-) SetToBag({r})

\* faulty variant: the catch block records nothing and line 84 is not reached
Catch_silent(r) ==
    /\ botStatusMap' = botStatusMap
    /\ runs' = runs (-) SetToBag({r})

\* the catch block of lines 168-173
Catch(r) == Return(r, [error |-> ErrorString])

\* the guard of lines 68-76: the handler goes on to provision
shouldProvision(botId) ==
    /\ getBotConfig(botId).botId # Undefined
    /\ getBotConfig(botId).enabled
    /\ ~(hasBotStatus(botId) /\ botStatusMap[botId].initialized)

\* lines 61-80 and 91-101: up to the first await (the lookup by room name)
handleBotStatusUpdate(bot, limit) ==
    LET botId == getBotId(bot.platform, bot.selfId)
    IN  IF shouldProvision(botId)
        THEN /\ BagCardinality(runs) < limit
             /\ runs' = runs (+) SetToBag({Run("lookup", getBotConfig(botId), NullRoom)})
             /\ UNCHANGED <<config, botStatusMap, chathub_room, chathub_room_member>>
        ELSE UNCHANGED provVars

\* lines 99-112: the lookup by name returns (or throws)
lookupReturns(r, ok) ==
    LET existingRooms == dbGetByName(chathub_room, templateRoomName(r.botId))
    IN  /\ r.pc = "lookup"
        /\ IF ~ok
           THEN Catch(r)
           ELSE IF existingRooms # {}
           THEN \* existingRooms[0]: whichever matching row the store returns first
                \E first \in existingRooms :
                    Return(r, [templateRoomId |-> first.roomId])
           ELSE /\ UNCHANGED botStatusMap
                /\ Resume(r, "readAll", NullRoom)
        /\ UNCHANGED <<config, chathub_room, chathub_room_member>>

\* lines 112-154: the read of the whole table returns (or throws)
readAllReturns(r, ok) ==
    LET rooms     == dbRows(chathub_room)
        maxRoomId == maxRoomIdOf(rooms)
        selfId    == parseBotId(r.botId).selfId
        source    == parsePresetName(r.botConfig.preset).source
    IN  /\ r.pc = "readAll"
        /\ IF ~ok
           THEN Catch(r)
           ELSE IF source = PresetSource_Character
           THEN Return(r, [initialized |-> TRUE])
           ELSE /\ UNCHANGED botStatusMap
                /\ Resume(r, "createRoom",
                          newRoomOf(r.botId, r.botConfig, selfId, maxRoomId))
        /\ UNCHANGED <<config, chathub_room, chathub_room_member>>

\* lines 154-161: the room insert returns (or throws)
createRoomReturns(r, ok) ==
    /\ r.pc = "createRoom"
    /\ IF ~ok
       THEN /\ Catch(r)
            /\ UNCHANGED chathub_room
       ELSE /\ chathub_room' = dbCreate(chathub_room, r.newRoom)
            /\ Resume(r, "createMember", r.newRoom)
            /\ UNCHANGED botStatusMap
    /\ UNCHANGED <<config, chathub_room_member>>

\* lines 157-173: the membership insert returns (or throws)
createMemberReturns(r, ok) ==
    /\ r.pc = "createMember"
    /\ IF ~ok
       THEN /\ Catch(r)
            /\ UNCHANGED chathub_room_member
       ELSE /\ chathub_room_member' =
                    dbCreate(chathub_room_member,
                             newMemberOf(parseBotId(r.botId).selfId, r.newRoom))
            /\ Return(r, [templateRoomId |-> r.newRoom.roomId])
    /\ UNCHANGED <<config, chathub_room>>

-----------------------------------------------------------------------------
(* RoomInterceptor: the listeners start() subscribes and stop() removes.     *)
(* ctx.on returns a disposer that removes the listener it was returned for.  *)

ReadyListener == "chatluna/ready"

BotStatusListener == "bot-status-updated"

\* how many listeners of that event the interceptor has subscribed
subscribed(event) == CopiesIn(event, listeners)

\* count copies of one element, as a bag
copies(element, count) == IF count > 0 THEN [e \in {element} |-> count] ELSE EmptyBag

\* the listeners the disposers of the array remove, as a bag
disposedBy(disposers) ==
    [event \in {disposers[i] : i \in 1..Len(disposers)} |->
        Cardinality({i \in 1..Len(disposers) : disposers[i] = event})]

\* faulty variant: the disposer of the status listener is not kept
pushHooks_forget(disposers, event, count) == disposers

\* this.hooks.push(dispose), once per listener subscribed
pushHooks(disposers, event, count) == disposers \o [i \in 1..count |-> event]

NoEvents ==
    [stopped |-> FALSE, ready |-> 0, invoked |-> 0,
     deliveredAfterStop |-> FALSE, invokedAfterStop |-> 0]

\* a 'chatluna/ready' event has reached a listener of the interceptor
ReadyLogged(log) == [log EXCEPT !.ready = @ + 1]

\* a 'bot-status-updated' event has invoked that many handlers
EventLogged(log, count) ==
    [log EXCEPT !.invoked = count,
                !.deliveredAfterStop = log.stopped,
                !.invokedAfterStop = IF log.stopped THEN count ELSE @]

\* start() has returned (lines 31-46): the 'chatluna/ready' listener is
\* subscribed and its disposer kept
InterceptorStarted ==
    /\ hooks = <<ReadyListener>>
    /\ listeners = SetToBag({ReadyListener})
    /\ interceptorLog = NoEvents

\* 'chatluna/ready' has been delivered once since start()
InterceptorListening ==
    /\ hooks = <<ReadyListener, BotStatusListener>>
    /\ listeners = SetToBag({ReadyListener, BotStatusListener})
    /\ interceptorLog = NoEvents

\* lines 35-43: 'chatluna/ready' is delivered: each 'chatluna/ready' listener
\* subscribes a 'bot-status-updated' listener and keeps its disposer
roomOnChatLunaReady(limit) ==
    /\ subscribed(ReadyListener) > 0
    /\ Len(hooks) + subscribed(ReadyListener) <= limit + 1
    /\ listeners' = listeners (+) copies(BotStatusListener, subscribed(ReadyListener))
    /\ hooks' = pushHooks(hooks, BotStatusListener, subscribed(ReadyListener))
    /\ interceptorLog' = ReadyLogged(interceptorLog)
    /\ UNCHANGED provVars

\* 'bot-status-updated' is delivered: every listener subscribed calls
\* handleBotStatusUpdate(bot), which runs up to its first await (nothing is
\* written before it, so each call sees the same registry and status)
emitBotStatusUpdated(bot, limit) ==
    LET botId    == getBotId(bot.platform, bot.selfId)
        handlers == subscribed(BotStatusListener)
    IN  /\ interceptorLog' = EventLogged(interceptorLog, handlers)
        /\ UNCHANGED <<hooks, listeners>>
        /\ IF shouldProvision(botId)
           THEN /\ BagCardinality(runs) + handlers <= limit
                /\ runs' = runs (+) copies(Run("lookup", getBotConfig(botId), NullRoom), handlers)
                /\ UNCHANGED <<config, botStatusMap, chathub_room, chathub_room_member>>
           ELSE UNCHANGED provVars

\* stop() (lines 179-184): every disposer is called, then the array is emptied
stop ==
    /\ ~interceptorLog.stopped
    /\ listeners' = listeners (-) disposedBy(hooks)
    /\ hooks' = <<>>
    /\ interceptorLog' = [interceptorLog EXCEPT !.stopped = TRUE]
    /\ UNCHANGED provVars

-----------------------------------------------------------------------------
(* apply(): the four timers of the plugin, the handlers that set them and   *)
(* the dispose handler.  A timer is a record: "pending" with the time left   *)
(* until it is due, or "fired", or "cleared"; a handle variable that holds   *)
(* no timer is Null.  Time advances in steps of TickMs and never past a      *)
(* timer that is due.                                                        *)

ScanDelayMs == 500

DebounceMs == 200

PresetLoadDelayMs == 1000

FinalPassDelayMs == 1500

RECURSIVE GCD(_, _)
GCD(a, b) == IF b = 0 THEN a ELSE GCD(b, a % b)

TickMs == GCD(GCD(ScanDelayMs, DebounceMs), GCD(PresetLoadDelayMs, FinalPassDelayMs))

Null == [state |-> "null", left |-> 0]

setTimeout(ms) == [state |-> "pending", left |-> ms]

Pending(timer) == timer.state = "pending"

Due(timer) == Pending(timer) /\ timer.left = 0

Fired(timer) == [state |-> "fired", left |-> 0]

\* clearTimeout of a timer that has fired or was cleared does nothing
clearTimeout(timer) == IF Pending(timer) THEN [state |-> "cleared", left |-> 0] ELSE timer

Elapse(timer) == IF Pending(timer) THEN [timer EXCEPT !.left = @ - TickMs] ELSE timer

RECURSIVE ElapseAll(_)
ElapseAll(timersBag) ==
    IF timersBag = EmptyBag THEN EmptyBag
    ELSE LET t == CHOOSE t \in BagToSet(timersBag) : TRUE
         IN  ElapseAll(timersBag (-) SetToBag({t})) (+) SetToBag({Elapse(t)})

\* the preset-load timers still pending: the one presetLoadTimer refers to and
\* those no variable refers to any more
PendingPresetTimers ==
    (IF Pending(presetLoadTimer) THEN 1 ELSE 0) + BagCardinality(unreferencedPresetTimers)

\* the preset-load work that exists or is certain to come: pending timers,
\* callbacks awaiting loadPresets, handlers awaiting loadModels and the
\* final-pass timer
PresetWork ==
    PendingPresetTimers + presetLoads + modelLoads + (IF Pending(finalTimer) THEN 1 ELSE 0)

AllTimers ==
    {scanTimer, debounceTimer, presetLoadTimer, finalTimer}
        \cup BagToSet(unreferencedPresetTimers) \cup BagToSet(unreferencedDebounceTimers)

\* if (this.debounceTimer) clearTimeout(this.debounceTimer); the variable then
\* refers to a new timer, so the cleared one is not kept
scheduleScan(timer) == setTimeout(DebounceMs)

\* faulty variant: the timer the variable refers to is left as it is
clearedByScheduleScan_noClear(timer) == timer

\* line 91: what scheduleScan makes of the timer the variable referred to
clearedByScheduleScan(timer) == IF timer # Null THEN clearTimeout(timer) ELSE timer

\* a timer the variable has let go of is of interest only while it is pending
letGo(timersBag, timer) ==
    IF Pending(timer) THEN timersBag (+) SetToBag({timer}) ELSE timersBag

NoScanScheduled == [triggered |-> FALSE, sinceTrigger |-> 0, firedAt |-> <<>>, burst |-> 0]

\* scheduleScan has just been called; a call less than DebounceMs after the
\* one before it belongs to the same burst (counted up to MaxBurst)
ScanScheduled(log) ==
    [triggered    |-> TRUE,
     sinceTrigger |-> 0,
     firedAt      |-> <<>>,
     burst        |-> IF log.triggered /\ log.sinceTrigger < DebounceMs
                      THEN (IF log.burst < MaxBurst THEN log.burst + 1 ELSE log.burst)
                      ELSE 1]

\* the time since the last scheduleScan is followed up to one tick past the delay
ScanLogElapse(log) ==
    IF log.triggered /\ log.sinceTrigger <= DebounceMs
    THEN [log EXCEPT !.sinceTrigger = @ + TickMs]
    ELSE log

\* a debounce timer has run scanFromMBC
ScanLogFired(log) == [log EXCEPT !.firedAt = Append(@, log.sinceTrigger)]

\* if (presetLoadTimer) clearTimeout(presetLoadTimer); presetLoadTimer = setTimeout(.., 1000)
schedulePresetLoad(timer) == setTimeout(PresetLoadDelayMs)

NoPresetTrigger == [waiting |-> FALSE, parity |-> FALSE]

\* schedulePresetLoad has just been called (parity tells one call from the next)
PresetTriggered(log) == [waiting |-> TRUE, parity |-> ~log.parity]

\* a preset-load timer's callback has called loadPresets()
PresetLoadStarted(log) == [log EXCEPT !.waiting = FALSE]

\* the enabled bots of the list, as the botIds `${platform}:${selfId}`
enabledBotIds(bots) ==
    {getBotId(bots[k].platform, bots[k].selfId) : k \in {k \in 1..Len(bots) : bots[k].enabled}}

\* scanFromMBC: getBots() returned bots (ok) or threw (caught and logged)
scanFromMBC(known, bots, ok) ==
    IF ok /\ enabledBotIds(bots) # known THEN enabledBotIds(bots) ELSE known

presetVars ==
    <<presetLoadTimer, unreferencedPresetTimers, presetLoads, presetTriggerLog, modelLoads>>

scanVars == <<scanTimer, debounceTimer, unreferencedDebounceTimers, scanLog, knownBots>>

\* 'multi-bot-controller/bots-updated', 'bot-added', 'bot-removed'
ScanEvents == {"multi-bot-controller/bots-updated", "bot-added", "bot-removed"}

OnScanEvent(event) ==
    /\ ~disposed
    /\ event \in ScanEvents
    /\ debounceTimer' = scheduleScan(debounceTimer)
    /\ unreferencedDebounceTimers' =
           letGo(unreferencedDebounceTimers, clearedByScheduleScan(debounceTimer))
    /\ scanLog' = ScanScheduled(scanLog)
    /\ UNCHANGED <<scanTimer, knownBots, finalTimer, manualDisposes, disposed>>
    /\ UNCHANGED presetVars

\* 'ready' is delivered once: BotSchemaService schedules a scan and apply()
\* sets the 1500 ms final-pass timer and registers its clearTimeout
OnReady(limit) ==
    /\ ~disposed
    /\ finalTimer = Null
    /\ PresetWork < limit
    /\ debounceTimer' = scheduleScan(debounceTimer)
    /\ unreferencedDebounceTimers' =
           letGo(unreferencedDebounceTimers, clearedByScheduleScan(debounceTimer))
    /\ scanLog' = ScanScheduled(scanLog)
    /\ finalTimer' = setTimeout(FinalPassDelayMs)
    /\ manualDisposes' = Append(manualDisposes, "timer")
    /\ UNCHANGED <<scanTimer, knownBots, disposed>>
    /\ UNCHANGED presetVars

ScanTimerFires(bots, ok) ==
    /\ Due(scanTimer)
    /\ scanTimer' = Fired(scanTimer)
    /\ knownBots' = scanFromMBC(knownBots, bots, ok)
    /\ UNCHANGED <<debounceTimer, unreferencedDebounceTimers, scanLog>>
    /\ UNCHANGED <<finalTimer, manualDisposes, disposed>>
    /\ UNCHANGED presetVars

\* a debounce timer is due: its callback runs scanFromMBC
DebounceTimerFires(bots, ok) ==
    /\ \E timer \in {debounceTimer} \cup BagToSet(unreferencedDebounceTimers) :
           /\ Due(timer)
           /\ IF timer = debounceTimer
              THEN /\ debounceTimer' = Fired(debounceTimer)
                   /\ UNCHANGED unreferencedDebounceTimers
              ELSE /\ unreferencedDebounceTimers' =
                          unreferencedDebounceTimers (-) SetToBag({timer})
                   /\ UNCHANGED debounceTimer
    /\ scanLog' = ScanLogFired(scanLog)
    /\ knownBots' = scanFromMBC(knownBots, bots, ok)
    /\ UNCHANGED <<scanTimer, finalTimer, manualDisposes, disposed>>
    /\ UNCHANGED presetVars

\* 'chatluna/ready': the handler starts and awaits botManager.loadModels()
OnChatLunaReady(limit) ==
    /\ ~disposed
    /\ PresetWork < limit
    /\ modelLoads' = modelLoads + 1
    /\ UNCHANGED <<presetLoadTimer, unreferencedPresetTimers, presetLoads, presetTriggerLog>>
    /\ UNCHANGED <<finalTimer, manualDisposes, disposed>>
    /\ UNCHANGED scanVars

\* loadModels() has settled (it catches its own errors): schedulePresetLoad()
LoadModelsReturns ==
    /\ modelLoads > 0
    /\ modelLoads' = modelLoads - 1
    /\ presetLoadTimer' = schedulePresetLoad(presetLoadTimer)
    /\ presetTriggerLog' = PresetTriggered(presetTriggerLog)
    /\ UNCHANGED <<unreferencedPresetTimers, presetLoads>>
    /\ UNCHANGED <<finalTimer, manualDisposes, disposed>>
    /\ UNCHANGED scanVars

OnCharacterReady(limit) ==
    /\ ~disposed
    /\ PresetWork - (IF Pending(presetLoadTimer) THEN 1 ELSE 0) < limit
    /\ presetLoadTimer' = schedulePresetLoad(presetLoadTimer)
    /\ presetTriggerLog' = PresetTriggered(presetTriggerLog)
    /\ UNCHANGED <<unreferencedPresetTimers, presetLoads, modelLoads>>
    /\ UNCHANGED <<finalTimer, manualDisposes, disposed>>
    /\ UNCHANGED scanVars

ConfigPlugins == {"chatluna", "chatluna-character", "other"}

OnConfigUpdated(plugin, limit) ==
    /\ ~disposed
    /\ PresetWork - (IF Pending(presetLoadTimer) THEN 1 ELSE 0) < limit
    /\ presetLoadTimer' =
           IF plugin = "chatluna" \/ plugin = "chatluna-character"
           THEN schedulePresetLoad(presetLoadTimer)
           ELSE presetLoadTimer
    /\ presetTriggerLog' =
           IF plugin = "chatluna" \/ plugin = "chatluna-character"
           THEN PresetTriggered(presetTriggerLog)
           ELSE presetTriggerLog
    /\ UNCHANGED <<unreferencedPresetTimers, presetLoads, modelLoads>>
    /\ UNCHANGED <<finalTimer, manualDisposes, disposed>>
    /\ UNCHANGED scanVars

FinalTimerFires ==
    /\ Due(finalTimer)
    /\ finalTimer' = Fired(finalTimer)
    /\ presetLoadTimer' = schedulePresetLoad(presetLoadTimer)
    /\ presetTriggerLog' = PresetTriggered(presetTriggerLog)
    /\ UNCHANGED <<unreferencedPresetTimers, presetLoads, modelLoads>>
    /\ UNCHANGED <<manualDisposes, disposed>>
    /\ UNCHANGED scanVars

\* the callback of a preset-load timer starts: await botManager.loadPresets()
PresetLoadTimerFires ==
    /\ Due(presetLoadTimer)
    /\ presetLoadTimer' = Fired(presetLoadTimer)
    /\ presetLoads' = presetLoads + 1
    /\ presetTriggerLog' = PresetLoadStarted(presetTriggerLog)
    /\ UNCHANGED <<unreferencedPresetTimers, modelLoads>>
    /\ UNCHANGED <<finalTimer, manualDisposes, disposed>>
    /\ UNCHANGED scanVars

UnreferencedPresetTimerFires ==
    /\ \E timer \in BagToSet(unreferencedPresetTimers) :
           /\ Due(timer)
           /\ unreferencedPresetTimers' = unreferencedPresetTimers (-) SetToBag({timer})
    /\ presetLoads' = presetLoads + 1
    /\ presetTriggerLog' = PresetLoadStarted(presetTriggerLog)
    /\ UNCHANGED <<presetLoadTimer, modelLoads>>
    /\ UNCHANGED <<finalTimer, manualDisposes, disposed>>
    /\ UNCHANGED scanVars

\* faulty variant: the callback also clears the timer the variable refers to
\* by now
LoadPresetsReturns_clears ==
    /\ presetLoads > 0
    /\ presetLoads' = presetLoads - 1
    /\ presetLoadTimer' = Null
    /\ UNCHANGED <<unreferencedPresetTimers, modelLoads, presetTriggerLog>>
    /\ UNCHANGED <<finalTimer, manualDisposes, disposed>>
    /\ UNCHANGED scanVars

\* loadPresets() has settled and the callback goes on: presetLoadTimer = null,
\* whichever timer the variable refers to by now
LoadPresetsReturns ==
    /\ presetLoads > 0
    /\ presetLoads' = presetLoads - 1
    /\ presetLoadTimer' = Null
    /\ unreferencedPresetTimers' =
           IF Pending(presetLoadTimer)
           THEN unreferencedPresetTimers (+) SetToBag({presetLoadTimer})
           ELSE unreferencedPresetTimers
    /\ UNCHANGED <<modelLoads, presetTriggerLog>>
    /\ UNCHANGED <<finalTimer, manualDisposes, disposed>>
    /\ UNCHANGED scanVars

IsDisposedOf(name) == \E i \in 1..Len(manualDisposes) : manualDisposes[i] = name

\* the 'dispose' handler: every function of manualDisposes is called, then
\* the array is emptied; Koishi removes the listeners set with ctx.on
Dispose ==
    /\ ~disposed
    /\ disposed' = TRUE
    /\ scanTimer' = IF IsDisposedOf("scanTimer") THEN clearTimeout(scanTimer) ELSE scanTimer
    /\ finalTimer' = IF IsDisposedOf("timer") THEN clearTimeout(finalTimer) ELSE finalTimer
    /\ manualDisposes' = <<>>
    /\ UNCHANGED <<debounceTimer, unreferencedDebounceTimers, scanLog, knownBots>>
    /\ UNCHANGED presetVars

\* TickMs pass; no timer is due
Tick ==
    /\ \E timer \in AllTimers : Pending(timer)
    /\ \A timer \in AllTimers : ~Due(timer)
    /\ scanTimer' = Elapse(scanTimer)
    /\ debounceTimer' = Elapse(debounceTimer)
    /\ unreferencedDebounceTimers' = ElapseAll(unreferencedDebounceTimers)
    /\ scanLog' = ScanLogElapse(scanLog)
    /\ presetLoadTimer' = Elapse(presetLoadTimer)
    /\ finalTimer' = Elapse(finalTimer)
    /\ unreferencedPresetTimers' = ElapseAll(unreferencedPresetTimers)
    /\ UNCHANGED <<knownBots, presetLoads, presetTriggerLog, modelLoads>>
    /\ UNCHANGED <<manualDisposes, disposed>>

\* apply() has returned: the BotSchemaService constructor has set the 500 ms
\* scan timer and registered its clearTimeout
TimersAtStart ==
    /\ scanTimer = setTimeout(ScanDelayMs)
    /\ debounceTimer = Null
    /\ unreferencedDebounceTimers = EmptyBag
    /\ scanLog = NoScanScheduled
    /\ knownBots = {}
    /\ presetLoadTimer = Null
    /\ unreferencedPresetTimers = EmptyBag
    /\ presetLoads = 0
    /\ presetTriggerLog = NoPresetTrigger
    /\ modelLoads = 0
    /\ finalTimer = Null
    /\ manualDisposes = <<"scanTimer">>
    /\ disposed = FALSE

-----------------------------------------------------------------------------
(* BotManager: calls made by the plugin's other parts and by the console     *)

\* a call of setBotStatus(botId, status); at most `limit` calls are kept in
\* the log
callSetBotStatus(botId, status, limit) ==
    /\ Len(statusLog) < limit
    /\ botStatusMap' = setBotStatus(botStatusMap, botId, status)
    /\ statusLog' = Append(statusLog, [botId |-> botId, status |-> status])
    /\ UNCHANGED <<config, chathub_room, chathub_room_member, runs>>

\* the log without the calls made on identities syncFromMBC has just removed
forgetRemoved(log, removed) ==
    SelectSeq(log, LAMBDA call :
                     \A j \in 1..Len(removed) : removed[j].botId # call.botId)

\* faulty variant: the edited entry is always appended
updateBotConfig_push(cfg, botConfig) == Append(cfg, botConfig)

\* updateBotConfig(config) on registry cfg: the registry it leaves behind
updateBotConfig(cfg, botConfig) ==
    LET hits == {i \in 1..Len(cfg) : cfg[i].botId = botConfig.botId}
    IN  IF hits # {}
        THEN [cfg EXCEPT ![MinOf(hits)] = botConfig]
        ELSE Append(cfg, botConfig)

NoUpdate == [config |-> UndefinedConfig, called |-> FALSE]

\* a call of updateBotConfig(botConfig)
callUpdateBotConfig(botConfig) ==
    /\ config' = updateBotConfig(config, botConfig)
    /\ updateCall' = [config |-> botConfig, called |-> TRUE]
    /\ UNCHANGED <<botStatusMap, chathub_room, chathub_room_member, runs>>

NoParse ==
    [presetName |-> <<>>, called |-> FALSE,
     result |-> [name |-> <<>>, source |-> <<>>]]

\* a call of parsePresetName on the argument drawn at the start
callParsePresetName ==
    /\ ~parseCall.called
    /\ parseCall' = [parseCall EXCEPT !.called = TRUE,
                                      !.result = parsePresetName(parseCall.presetName)]

\* the key of an identity is made (getBotId), the room name is derived from
\* it (line 100) and the key is taken apart again (parseBotId, line 93)
callGetBotId(platform, selfId, limit) ==
    /\ Len(idCalls) < limit
    /\ idCalls' = Append(idCalls,
           [platform |-> platform,
            selfId   |-> selfId,
            botId    |-> getBotId(platform, selfId),
            roomName |-> templateRoomName(getBotId(platform, selfId)),
            parsed   |-> parseBotId(getBotId(platform, selfId))])
    /\ UNCHANGED <<statusLog, updateCall, parseCall>>

CallsAtStart ==
    /\ statusLog = <<>>
    /\ updateCall = NoUpdate
    /\ parseCall = NoParse
    /\ idCalls = <<>>

-----------------------------------------------------------------------------
(* BotManager: the preset and model catalogs.  A provider call gives a list, *)
(* or throws, or the service is not there.                                   *)

Comma == ","

Space == " "

\* the characters and character runs the catalog strings are made of, in the
\* order of their UTF-16 code units (the order Array.prototype.sort uses)
Alphabet == <<Space, Comma, "/", Colon, "a", "b", "character", "chatluna", "m1", "m2", "o", "y">>

Rank(token) == CHOOSE i \in 1..Len(Alphabet) : Alphabet[i] = token

RECURSIVE LexLess(_, _)
LexLess(s, t) ==
    IF t = <<>> THEN FALSE
    ELSE IF s = <<>> THEN TRUE
    ELSE IF Head(s) = Head(t) THEN LexLess(Tail(s), Tail(t))
    ELSE Rank(Head(s)) < Rank(Head(t))

RECURSIVE insertSorted(_, _)
insertSorted(sorted, s) ==
    IF sorted = <<>> THEN <<s>>
    ELSE IF LexLess(s, Head(sorted)) THEN <<s>> \o sorted
    ELSE <<Head(sorted)>> \o insertSorted(Tail(sorted), s)

\* Array.prototype.sort() on strings
RECURSIVE sort(_)
sort(strings) ==
    IF strings = <<>> THEN <<>>
    ELSE insertSorted(sort(SubSeq(strings, 1, Len(strings) - 1)), strings[Len(strings)])

\* Array.prototype.join(sep)
RECURSIVE join(_, _)
join(strings, sep) ==
    IF strings = <<>> THEN <<>>
    ELSE IF Len(strings) = 1 THEN strings[1]
    ELSE strings[1] \o <<sep>> \o join(Tail(strings), sep)

RECURSIVE trimStart(_)
trimStart(s) == IF s # <<>> /\ Head(s) = Space THEN trimStart(Tail(s)) ELSE s

RECURSIVE trimEnd(_)
trimEnd(s) ==
    IF s # <<>> /\ s[Len(s)] = Space THEN trimEnd(SubSeq(s, 1, Len(s) - 1)) ELSE s

\* String.prototype.trim
trim(s) == trimEnd(trimStart(s))

namesOf(entries) == [i \in 1..Len(entries) |-> entries[i].name]

\* entries.map(p => p.name).sort().join(',')
keysOf(entries) == join(sort(namesOf(entries)), Comma)

Unavailable == [state |-> "unavailable", value |-> <<>>]

Throws == [state |-> "throws", value |-> <<>>]

Value(list) == [state |-> "value", value |-> list]

\* lines 259-265: the entry of one ChatLuna preset, named by its first keyword
\* (the full-width colon of the labels is written as a colon here)
chatLunaPresetOf(preset) ==
    LET firstKeyword == trim(split(preset, Comma)[1])
    IN  [name   |-> PresetSource_ChatLuna \o <<Colon>> \o firstKeyword,
         label  |-> <<"ChatLuna", Colon>> \o firstKeyword,
         source |-> PresetSource_ChatLuna]

\* loadChatLunaPresets: the entries it pushes
loadChatLunaPresets(provider) ==
    IF provider.state = "value"
    THEN [i \in 1..Len(provider.value) |-> chatLunaPresetOf(provider.value[i])]
    ELSE <<>>

characterPresetOf(name) ==
    [name   |-> PresetSource_Character \o <<Colon>> \o name,
     label  |-> <<"character", Colon>> \o name,
     source |-> PresetSource_Character]

\* loadCharacterPresets: the entries it pushes
loadCharacterPresets(provider) ==
    IF provider.state = "value"
    THEN [i \in 1..Len(provider.value) |-> characterPresetOf(provider.value[i])]
    ELSE <<>>

\* lines 405-411: the entries of one platform's models
platformModelsOf(platformName, provider) ==
    IF provider.state = "value"
    THEN [i \in 1..Len(provider.value) |->
             [name     |-> platformName \o <<"/">> \o provider.value[i],
              label    |-> provider.value[i],
              platform |-> platformName]]
    ELSE <<>>

\* Object.entries(chatlunaService.platform): the platforms, in key order
Platforms == <<<<"o">>>>

\* an invocation in flight: which call it is, the entries it has pushed so
\* far, and the platform it is at
RefreshRun(id, op, entries, next) ==
    [id |-> id, op |-> op, entries |-> entries, next |-> next]

\* the smallest number no invocation in flight carries
newRunId ==
    CHOOSE i \in 1..(BagCardinality(refreshRuns) + 1) :
        /\ \A r \in BagToSet(refreshRuns) : r.id # i
        /\ \A j \in 1..(i - 1) : \E r \in BagToSet(refreshRuns) : r.id = j

\* the character provider has not answered yet
NoAnswer == [state |-> "pending", value |-> <<>>]

NoPresetRuns == [last |-> 0, of |-> <<>>]

\* the record of a loadPresets invocation from its start ...
PresetRunStarted(log, id, chatluna) ==
    [last |-> id,
     of   |-> (id :> [chatluna |-> chatluna, character |-> NoAnswer,
                      compared |-> <<>>, done |-> FALSE]) @@ log.of]

\* ... and once it has run to its end: the list it compared with the cache
PresetRunEnded(log, id, character, presets) ==
    [log EXCEPT !.of[id] = [@ EXCEPT !.character = character,
                                     !.compared = presets,
                                     !.done = TRUE]]

NoRefresh == [done |-> FALSE, names |-> {}, notified |-> FALSE]

Refreshed(entries, notified) ==
    [done |-> TRUE, names |-> {entries[i].name : i \in 1..Len(entries)},
     notified |-> notified]

\* lines 218-225 and 419-426: the comparison of the sorted, joined names
listChanged(old, new) == keysOf(old) # keysOf(new)

\* loadPresets up to its await of the character provider: loadChatLunaPresets
\* has pushed its entries
loadPresetsStarts(chatluna, limit) ==
    /\ BagCardinality(refreshRuns) < limit
    /\ refreshRuns' = refreshRuns (+)
           SetToBag({RefreshRun(newRunId, "loadPresets", loadChatLunaPresets(chatluna), 0)})
    /\ presetRunLog' = PresetRunStarted(presetRunLog, newRunId, chatluna)
    /\ UNCHANGED <<presetCache, modelCache, refreshLog>>

\* faulty variant: a throw of the character provider ends loadPresets before
\* it compares anything
loadPresetsReturns_abort(r, character) ==
    LET presets == r.entries \o loadCharacterPresets(character)
        changed == listChanged(presetCache, presets)
    IN  /\ r.op = "loadPresets"
        /\ refreshRuns' = refreshRuns (-) SetToBag({r})
        /\ IF character.state = "throws"
           THEN /\ presetRunLog' =
                       [presetRunLog EXCEPT !.of[r.id] = [@ EXCEPT !.character = character]]
                /\ UNCHANGED <<presetCache, refreshLog>>
           ELSE /\ presetCache' = IF changed THEN presets ELSE presetCache
                /\ refreshLog' = [refreshLog EXCEPT !.presets = Refreshed(presets, changed)]
                /\ presetRunLog' = PresetRunEnded(presetRunLog, r.id, character, presets)
        /\ UNCHANGED modelCache

\* the character provider has answered: the rest of loadPresets
loadPresetsReturns(r, character) ==
    LET presets == r.entries \o loadCharacterPresets(character)
        changed == listChanged(presetCache, presets)
    IN  /\ r.op = "loadPresets"
        /\ presetCache' = IF changed THEN presets ELSE presetCache
        /\ refreshLog' = [refreshLog EXCEPT !.presets = Refreshed(presets, changed)]
        /\ refreshRuns' = refreshRuns (-) SetToBag({r})
        /\ presetRunLog' = PresetRunEnded(presetRunLog, r.id, character, presets)
        /\ UNCHANGED modelCache

\* loadModels up to its first await; without the ChatLuna service (or its
\* platform service) it returns at once
loadModelsStarts(available, limit) ==
    /\ BagCardinality(refreshRuns) < limit
    /\ refreshRuns' =
           IF available /\ Len(Platforms) > 0
           THEN refreshRuns (+) SetToBag({RefreshRun(newRunId, "loadModels", <<>>, 1)})
           ELSE refreshRuns
    /\ UNCHANGED <<presetCache, modelCache, refreshLog, presetRunLog>>

\* getModels of the platform the run is at has answered; after the last
\* platform the rest of loadModels runs
loadModelsReturns(r, provider) ==
    LET models  == r.entries \o platformModelsOf(Platforms[r.next], provider)
        changed == listChanged(modelCache, models)
    IN  /\ r.op = "loadModels"
        /\ IF r.next < Len(Platforms)
           THEN /\ refreshRuns' = (refreshRuns (-) SetToBag({r})) (+)
                       SetToBag({RefreshRun(r.id, "loadModels", models, r.next + 1)})
                /\ UNCHANGED <<modelCache, refreshLog>>
           ELSE /\ modelCache' = IF changed THEN models ELSE modelCache
                /\ refreshLog' = [refreshLog EXCEPT !.models = Refreshed(models, changed)]
                /\ refreshRuns' = refreshRuns (-) SetToBag({r})
        /\ UNCHANGED <<presetCache, presetRunLog>>

CatalogsAtStart ==
    /\ presetCache = <<>>
    /\ modelCache = <<>>
    /\ refreshRuns = EmptyBag
    /\ refreshLog = [presets |-> NoRefresh, models |-> NoRefresh]
    /\ presetRunLog = NoPresetRuns

-----------------------------------------------------------------------------
(* The host: the bots that emit 'bot-status-updated', the configured        *)
(* personas and the rooms ChatLuna itself holds when the plugin starts      *)

Str(token) == <<token>>

HostBots ==
    {[platform |-> Str("p"), selfId |-> Str("s1")],
     [platform |-> Str("p"), selfId |-> Str("s2")]}

ChatLunaPersona ==
    [preset |-> <<"chatluna", Colon, "x">>, model |-> Str("m"), chatMode |-> Str("plugin")]

Personas ==
    {[preset |-> <<>>, model |-> <<>>, chatMode |-> <<>>],
     ChatLunaPersona,
     [preset |-> <<"character", Colon, "y">>, model |-> Str("m"), chatMode |-> Str("chat")]}

PersonaConfig(botId, enabled, persona) ==
    [botId |-> botId, enabled |-> enabled, preset |-> persona.preset,
     model |-> persona.model, chatMode |-> persona.chatMode]

ForeignRoom(id) ==
    [roomId |-> id, roomName |-> Str("user room"), roomMasterId |-> Str("u"),
     conversationId |-> Str("c"), preset |-> Str("x"), model |-> Str("m"),
     chatMode |-> Str("chat"), visibility |-> "private", password |-> "",
     autoUpdate |-> TRUE]

InitialRoomTables ==
    {EmptyBag, SetToBag({ForeignRoom(3), ForeignRoom(7), ForeignRoom(2)})}

\* config.bots as the plugin is loaded: the first bot enabled with any persona,
\* the second with a ChatLuna persona, enabled or not
InitialRegistries ==
    {<<PersonaConfig(getBotId(Str("p"), Str("s1")), TRUE, q1),
       PersonaConfig(getBotId(Str("p"), Str("s2")), e2, ChatLunaPersona)>> :
        q1 \in Personas, e2 \in BOOLEAN}

Init ==
    /\ config \in InitialRegistries
    /\ botStatusMap = <<>>
    /\ chathub_room \in InitialRoomTables
    /\ chathub_room_member = EmptyBag
    /\ runs = EmptyBag
    /\ syncCall = NoCall
    /\ TimersAtStart
    /\ CallsAtStart
    /\ CatalogsAtStart
    /\ InterceptorListening

\* the registry's sync and the timers take no part in provisioning
ProvisionFrame == UNCHANGED <<syncCall, timerVars, callVars, catalogVars, hookVars>>

ProvisionStep(outcomes, limit) ==
    \/ \E bot \in HostBots : handleBotStatusUpdate(bot, limit) /\ ProvisionFrame
    \/ \E r \in BagToSet(runs) : \E ok \in outcomes : lookupReturns(r, ok) /\ ProvisionFrame
    \/ \E r \in BagToSet(runs) : \E ok \in outcomes : readAllReturns(r, ok) /\ ProvisionFrame
    \/ \E r \in BagToSet(runs) : \E ok \in outcomes : createRoomReturns(r, ok) /\ ProvisionFrame
    \/ \E r \in BagToSet(runs) : \E ok \in outcomes : createMemberReturns(r, ok) /\ ProvisionFrame

\* every database call may succeed or throw; up to MaxRuns handlers overlap
Next == ProvisionStep(BOOLEAN, MaxRuns)

Spec == Init /\ [][Next]_vars

\* the record store never fails and each handler ends before the next starts
SeqNext == ProvisionStep({TRUE}, 1)

SeqSpec == Init /\ [][SeqNext]_vars

\* every database call may succeed or throw; each handler ends before the
\* next starts
FailNext == ProvisionStep(BOOLEAN, 1)

FailSpec == Init /\ [][FailNext]_vars

-----------------------------------------------------------------------------
(* Provisioning: properties *)

BotIdOf(bot) == getBotId(bot.platform, bot.selfId)

\* the rows of a table that satisfy Test, counted with their multiplicity
CountRows(table, Test(_)) ==
    BagCardinality([row \in {x \in BagToSet(table) : Test(x)} |-> table[row]])

RoomsOf(botId) ==
    CountRows(chathub_room, LAMBDA row : row.roomName = templateRoomName(botId))

InFlight(botId) == \E r \in BagToSet(runs) : r.botId = botId

SetMax(S) == CHOOSE x \in S : \A y \in S : y <= x

\* C1 (as claimed): whatever the interleaving of the provisioning runs, the
\* room table holds at most one room named after each identity.
C1_AtMostOneRoomPerIdentity ==
    \A bot \in HostBots : RoomsOf(BotIdOf(bot)) <= 1

\* C2: with a store that never fails and handlers that run one after another,
\* once a provisioning of a ChatLuna-source identity has completed the tables
\* hold exactly one room and one membership for it, templateRoomId is that
\* room's roomId, and a further trigger returns before any store call.
C2_SequentialProvisioningIsIdempotent ==
    \A bot \in HostBots :
        LET botId == BotIdOf(bot) IN
        ( /\ hasBotStatus(botId)
          /\ ~InFlight(botId)
          /\ parsePresetName(getBotConfig(botId).preset).source = PresetSource_ChatLuna )
        => /\ RoomsOf(botId) = 1
           /\ CountRows(chathub_room_member, LAMBDA m : m.userId = bot.selfId) = 1
           /\ "templateRoomId" \in DOMAIN botStatusMap[botId]
           /\ \E room \in dbGetByName(chathub_room, templateRoomName(botId)) :
                 /\ botStatusMap[botId].templateRoomId = room.roomId
                 /\ CountRows(chathub_room_member,
                              LAMBDA m : m.roomId = room.roomId /\ m.userId = bot.selfId) = 1
           /\ ~shouldProvision(botId)

C2_Witness ==
    LET botId == getBotId(Str("p"), Str("s1")) IN
    /\ hasBotStatus(botId)
    /\ ~InFlight(botId)
    /\ RoomsOf(botId) = 1
    /\ "templateRoomId" \in DOMAIN botStatusMap[botId]
    /\ botStatusMap[botId].templateRoomId = 8
    /\ botStatusMap[botId].initialized

\* a step in which a database call of run r throws
StoreCallFails(r) ==
    \/ lookupReturns(r, FALSE)
    \/ readAllReturns(r, FALSE)
    \/ createRoomReturns(r, FALSE)
    \/ createMemberReturns(r, FALSE)

\* C3 (as claimed): when a database call of a provisioning run fails, the
\* handler ends with the error string in RuntimeStatus.error and with
\* RuntimeStatus.initialized still false.
C3_FailureLeavesUninitialized ==
    [][\A r \in BagToSet(runs) :
          StoreCallFails(r) =>
              /\ r.botId \in DOMAIN botStatusMap'
              /\ botStatusMap'[r.botId].error = ErrorString
              /\ botStatusMap'[r.botId].initialized = FALSE]_vars

\* C4 (as claimed): an enabled identity whose provisioning ended in a
\* persistence error and that has no room is provisioned again by the next
\* status-update trigger.
C4_ErrorIsRetriedOnNextTrigger ==
    \A bot \in HostBots :
        LET botId == BotIdOf(bot) IN
        ( /\ getBotConfig(botId).enabled
          /\ hasBotStatus(botId)
          /\ "error" \in DOMAIN botStatusMap[botId]
          /\ "templateRoomId" \notin DOMAIN botStatusMap[botId]
          /\ ~InFlight(botId) )
        => shouldProvision(botId)

\* the rooms this system wrote: the initial table holds none of that name
IsTemplateRoom(row) == row.roomName # <<>> /\ Head(row.roomName) = TemplateRoomPrefix

\* C5: every room this system has written, or is about to write, has
\* autoUpdate = false, whatever the persona.
C5_AutoUpdateIsFalse ==
    /\ \A row \in BagToSet(chathub_room) : IsTemplateRoom(row) => row.autoUpdate = FALSE
    /\ \A r \in BagToSet(runs) :
          r.pc \in {"createRoom", "createMember"} => r.newRoom.autoUpdate = FALSE

C5_Witness ==
    \E row \in BagToSet(chathub_room) :
        /\ IsTemplateRoom(row)
        /\ row.model = Str("m")
        /\ row.chatMode = Str("plugin")
        /\ \E other \in BagToSet(chathub_room) :
              IsTemplateRoom(other) /\ other.model = <<>> /\ other.preset = <<>>

\* C6 (as claimed): no two rows of the room table share a roomId.
C6_RoomIdsAreUnique ==
    \A row \in BagToSet(chathub_room) :
        CountRows(chathub_room, LAMBDA other : other.roomId = row.roomId) = 1

\* what the claim says the next roomId is, from the set of ids of a table
NextRoomIdOf(table) ==
    LET ids == {row.roomId : row \in BagToSet(table)}
    IN  IF ids = {} THEN 1 ELSE 1 + SetMax(ids)

\* C7: the step in which a run's read of the whole room table returns gives
\* the room it builds roomId = 1 + the largest roomId read (1 for no rooms).
C7_RoomIdIsMaxPlusOne ==
    [][\A r \in BagToSet(runs) : \A r2 \in BagToSet(runs') :
          ( /\ r.pc = "readAll"
            /\ r2.pc = "createRoom"
            /\ runs' = (runs (-) SetToBag({r})) (+) SetToBag({r2}) )
          => r2.newRoom.roomId = NextRoomIdOf(chathub_room)]_vars

C7_Witness ==
    /\ {row.roomId : row \in BagToSet(chathub_room)} = {3, 7, 2}
    /\ \E r \in BagToSet(runs) : r.pc = "createRoom" /\ r.newRoom.roomId = 8

-----------------------------------------------------------------------------
(* The registry under syncFromMBC *)

\* the selfIds multi-bot-controller may report; the last one holds a ':'
SelfIds == {Str("s1"), Str("s2"), <<"s1", Colon, "x">>}

MbcBots == [platform : {Str("p")}, selfId : SelfIds, enabled : BOOLEAN]

RECURSIVE SeqsUpTo(_, _)
SeqsUpTo(S, n) ==
    IF n = 0
    THEN {<<>>}
    ELSE LET shorter == SeqsUpTo(S, n - 1)
         IN  shorter \cup {Append(q, x) : q \in shorter, x \in S}

MbcBotLists == SeqsUpTo(MbcBots, MaxList)

UnconfiguredPersona == [preset |-> <<>>, model |-> <<>>, chatMode |-> Str("chat")]

\* the entries config.bots may hold as the plugin is loaded or after console
\* edits: a botId is any string, and the last one has a selfId holding a ':'
RegistryEntries ==
    {PersonaConfig(getBotId(Str("p"), selfId), enabled,
                   IF selfId = Str("s1") THEN ChatLunaPersona ELSE UnconfiguredPersona) :
        selfId \in {Str("s1"), Str("s2"), Str("s3"), <<"s1", Colon, "x">>},
        enabled \in BOOLEAN}

SyncInitialRegistries == SeqsUpTo(RegistryEntries, MaxRegistry)

\* the status map holds a record for every registry entry, or none
StatusMapsFor(cfg) ==
    {<<>>,
     [botId \in {cfg[i].botId : i \in 1..Len(cfg)} |->
         [botId |-> botId, platform |-> parseBotId(botId).platform,
          initialized |-> TRUE]]}

SyncInit ==
    /\ config \in SyncInitialRegistries
    /\ botStatusMap \in StatusMapsFor(config)
    /\ chathub_room = EmptyBag
    /\ chathub_room_member = EmptyBag
    /\ runs = EmptyBag
    /\ syncCall = NoCall
    /\ TimersAtStart
    /\ CallsAtStart
    /\ CatalogsAtStart
    /\ InterceptorStarted

\* one call of syncFromMBC on the registry drawn by SyncInit
SyncNext ==
    /\ ~syncCall.called
    /\ \E mbcBots \in MbcBotLists : callSyncFromMBC(mbcBots)
    /\ UNCHANGED <<timerVars, callVars, catalogVars, hookVars>>

SyncSpec == SyncInit /\ [][SyncNext]_vars

-----------------------------------------------------------------------------
(* syncFromMBC: properties *)

BotIds(entries) == {entries[i].botId : i \in 1..Len(entries)}

ListIds(mbcBots) ==
    {getBotId(mbcBots[k].platform, mbcBots[k].selfId) : k \in 1..Len(mbcBots)}

DistinctBotIds(cfg) ==
    \A i, j \in 1..Len(cfg) : cfg[i].botId = cfg[j].botId => i = j

DistinctIdentities(mbcBots) ==
    \A i, j \in 1..Len(mbcBots) :
        ( mbcBots[i].platform = mbcBots[j].platform
          /\ mbcBots[i].selfId = mbcBots[j].selfId ) => i = j

HasColon(str) == \E i \in 1..Len(str) : str[i] = Colon

ColonFree(mbcBots) ==
    \A k \in 1..Len(mbcBots) :
        ~HasColon(mbcBots[k].platform) /\ ~HasColon(mbcBots[k].selfId)

EnabledIn(mbcBots, botId) ==
    LET k == CHOOSE k \in 1..Len(mbcBots) :
                 getBotId(mbcBots[k].platform, mbcBots[k].selfId) = botId
    IN  mbcBots[k].enabled

EnabledOf(cfg, botId) ==
    LET i == CHOOSE i \in 1..Len(cfg) : cfg[i].botId = botId
    IN  cfg[i].enabled

\* C10 (as claimed): on a registry of distinct botIds and a list of distinct,
\* colon-free identities, syncFromMBC returns added = the list identities the
\* registry lacked, updated = the common identities whose enabled flag
\* differed (each now carrying the list's value), removed = the registry
\* identities the list lacks, and leaves the registry's identity set equal to
\* the list's.
C10_SyncDiffIsTheSetDifference ==
    [][( /\ syncCall'.called
         /\ DistinctBotIds(config)
         /\ DistinctIdentities(syncCall'.mbcBots)
         /\ ColonFree(syncCall'.mbcBots) )
       => LET mbcBots == syncCall'.mbcBots
              result  == syncCall'.result
          IN  /\ BotIds(result.added) = ListIds(mbcBots) \ BotIds(config)
              /\ BotIds(result.updated) =
                     {id \in ListIds(mbcBots) \cap BotIds(config) :
                         EnabledOf(config, id) # EnabledIn(mbcBots, id)}
              /\ \A j \in 1..Len(result.updated) :
                     result.updated[j].enabled = EnabledIn(mbcBots, result.updated[j].botId)
              /\ BotIds(result.removed) = BotIds(config) \ ListIds(mbcBots)
              /\ BotIds(config') = ListIds(mbcBots)]_vars

\* C11: when syncFromMBC returns, no entry it reports as removed has a
\* registry entry or a status record any more, and every identity still in
\* the registry has the status record it had before the call (or still none).
C11_RemovedLoseStatusKeptKeepIt ==
    [][syncCall'.called =>
          LET removed == syncCall'.result.removed
          IN  /\ \A j \in 1..Len(removed) :
                     /\ removed[j].botId \notin BotIds(config')
                     /\ removed[j].botId \notin DOMAIN botStatusMap'
              /\ \A id \in BotIds(config') :
                     IF id \in DOMAIN botStatusMap
                     THEN /\ id \in DOMAIN botStatusMap'
                          /\ botStatusMap'[id] = botStatusMap[id]
                     ELSE id \notin DOMAIN botStatusMap']_vars

\* a sync has removed an entry and kept another one that has a status record
C11_Witness ==
    /\ syncCall.called
    /\ Len(syncCall.result.removed) > 0
    /\ \E id \in BotIds(config) : id \in DOMAIN botStatusMap

\* the last descriptor of the list that carries the identity botId
LastDescriptorOf(mbcBots, botId) ==
    mbcBots[SetMax({k \in 1..Len(mbcBots) :
                       getBotId(mbcBots[k].platform, mbcBots[k].selfId) = botId})]

\* C12: every entry syncFromMBC adds carries the enabled flag of the list
\* (of the identity's last descriptor, should the list name it twice), an
\* empty preset, an empty model and chatMode chat; and the entries that were
\* in the registry before the call and are still there keep their order,
\* preset, model and chatMode.
C12_AddedAreUnconfiguredKeptKeepPersona ==
    [][syncCall'.called =>
          LET mbcBots == syncCall'.mbcBots
              added   == syncCall'.result.added
              kept    == SelectSeq(config, LAMBDA bot : bot.botId \in BotIds(config'))
          IN  /\ \A j \in 1..Len(added) :
                     /\ added[j].botId \in ListIds(mbcBots)
                     /\ added[j].enabled = LastDescriptorOf(mbcBots, added[j].botId).enabled
                     /\ added[j].preset = <<>>
                     /\ added[j].model = <<>>
                     /\ added[j].chatMode = <<"chat">>
              /\ Len(kept) <= Len(config')
              /\ \A i \in 1..Len(kept) :
                     /\ config'[i].botId = kept[i].botId
                     /\ config'[i].preset = kept[i].preset
                     /\ config'[i].model = kept[i].model
                     /\ config'[i].chatMode = kept[i].chatMode]_vars

\* a sync has added an entry to a registry that held a configured one
C12_Witness ==
    /\ syncCall.called
    /\ Len(syncCall.result.added) > 0
    /\ \E i \in 1..Len(config) : config[i].preset # <<>> /\ config[i].model # <<>>

-----------------------------------------------------------------------------
(* The timers of apply() on their own: the registry and the store are idle   *)

\* what multi-bot-controller's getBots() returns when a scan runs
GetBotsResults ==
    {<<>>,
     <<[platform |-> Str("p"), selfId |-> Str("s1"), enabled |-> TRUE],
       [platform |-> Str("p"), selfId |-> Str("s2"), enabled |-> FALSE]>>}

TimerInit ==
    /\ config = <<>>
    /\ botStatusMap = <<>>
    /\ chathub_room = EmptyBag
    /\ chathub_room_member = EmptyBag
    /\ runs = EmptyBag
    /\ syncCall = NoCall
    /\ TimersAtStart
    /\ CallsAtStart
    /\ CatalogsAtStart
    /\ InterceptorStarted

\* the registry and the store take no part in the timers
TimerFrame == UNCHANGED <<provVars, syncCall, callVars, catalogVars, hookVars>>

TimerStep(limit) ==
    \/ \E event \in ScanEvents : OnScanEvent(event) /\ TimerFrame
    \/ OnReady(limit) /\ TimerFrame
    \/ \E bots \in GetBotsResults : \E ok \in BOOLEAN : ScanTimerFires(bots, ok) /\ TimerFrame
    \/ \E bots \in GetBotsResults : \E ok \in BOOLEAN : DebounceTimerFires(bots, ok) /\ TimerFrame
    \/ OnChatLunaReady(limit) /\ TimerFrame
    \/ LoadModelsReturns /\ TimerFrame
    \/ OnCharacterReady(limit) /\ TimerFrame
    \/ \E plugin \in ConfigPlugins : OnConfigUpdated(plugin, limit) /\ TimerFrame
    \/ FinalTimerFires /\ TimerFrame
    \/ PresetLoadTimerFires /\ TimerFrame
    \/ UnreferencedPresetTimerFires /\ TimerFrame
    \/ LoadPresetsReturns /\ TimerFrame
    \/ Dispose /\ TimerFrame
    \/ Tick /\ TimerFrame

TimerNext == TimerStep(MaxPresetWork)

TimerSpec == TimerInit /\ [][TimerNext]_vars

-----------------------------------------------------------------------------
(* The timers: properties *)

\* C8 (as claimed): at most one preset-load timer is pending at any time, so
\* a burst of schedulePresetLoad triggers, each less than 1000 ms after the
\* previous one, starts loadPresets exactly once, also when the burst begins
\* while a callback is still awaiting loadPresets.
C8_AtMostOnePresetLoadTimerPending == PendingPresetTimers <= 1

\* C9 (as claimed): once the dispose handler has run, none of the plugin's
\* timers (500 ms scan, 200 ms scan debounce, 1000 ms preset-load debounce,
\* 1500 ms final pass) is pending.
C9_NoTimerPendingAfterDispose ==
    disposed => \A timer \in AllTimers : ~Pending(timer)

PendingDebounceTimers ==
    (IF Pending(debounceTimer) THEN 1 ELSE 0) + BagCardinality(unreferencedDebounceTimers)

\* C22: at most one scan debounce timer is pending; after a scheduleScan call
\* no debounced scan runs until DebounceMs have passed since that call, and
\* once more than DebounceMs have passed without a further call exactly one
\* has run, at DebounceMs after the call.
C22_ScanDebounceIsTrailingEdge ==
    /\ PendingDebounceTimers <= 1
    /\ scanLog.firedAt \in {<<>>, <<DebounceMs>>}
    /\ scanLog.triggered /\ scanLog.sinceTrigger < DebounceMs => scanLog.firedAt = <<>>
    /\ scanLog.triggered /\ scanLog.sinceTrigger > DebounceMs =>
           scanLog.firedAt = <<DebounceMs>>
    /\ ~scanLog.triggered => scanLog.firedAt = <<>>

\* a burst of several scheduleScan calls has ended in one debounced scan
C22_Witness ==
    /\ scanLog.burst >= 2
    /\ scanLog.firedAt = <<DebounceMs>>
    /\ scanLog.sinceTrigger > DebounceMs

\* the handlers and the timers that lead to loadPresets(), without the dispose
\* handler ('ready' sets the final-pass timer and also schedules a scan)
LiveStep(limit) ==
    \/ OnReady(limit) /\ TimerFrame
    \/ \E bots \in GetBotsResults : \E ok \in BOOLEAN : ScanTimerFires(bots, ok) /\ TimerFrame
    \/ \E bots \in GetBotsResults : \E ok \in BOOLEAN : DebounceTimerFires(bots, ok) /\ TimerFrame
    \/ OnChatLunaReady(limit) /\ TimerFrame
    \/ LoadModelsReturns /\ TimerFrame
    \/ OnCharacterReady(limit) /\ TimerFrame
    \/ \E plugin \in ConfigPlugins : OnConfigUpdated(plugin, limit) /\ TimerFrame
    \/ FinalTimerFires /\ TimerFrame
    \/ PresetLoadTimerFires /\ TimerFrame
    \/ UnreferencedPresetTimerFires /\ TimerFrame
    \/ LoadPresetsReturns /\ TimerFrame
    \/ Tick /\ TimerFrame

LiveNext == LiveStep(MaxPresetWork)

\* time passes and a timer that is due runs its callback
TimersFire ==
    /\ WF_vars(Tick /\ TimerFrame)
    /\ WF_vars(\E bots \in GetBotsResults : \E ok \in BOOLEAN :
                   ScanTimerFires(bots, ok) /\ TimerFrame)
    /\ WF_vars(\E bots \in GetBotsResults : \E ok \in BOOLEAN :
                   DebounceTimerFires(bots, ok) /\ TimerFrame)
    /\ WF_vars(FinalTimerFires /\ TimerFrame)
    /\ WF_vars(PresetLoadTimerFires /\ TimerFrame)
    /\ WF_vars(UnreferencedPresetTimerFires /\ TimerFrame)

LiveSpec == TimerInit /\ [][LiveNext]_vars /\ TimersFire

\* C23 (as claimed): after every schedulePresetLoad call a loadPresets()
\* invocation eventually starts, when timers fire and the plugin is not
\* disposed.
C23_NoPresetTriggerIsLost ==
    presetTriggerLog.waiting ~> ~presetTriggerLog.waiting

\* C23 (amended): after every schedulePresetLoad call, eventually a
\* loadPresets() invocation starts or schedulePresetLoad is called again.
C23_TriggerServedOrReplaced ==
    \A parity \in BOOLEAN :
        (presetTriggerLog.waiting /\ presetTriggerLog.parity = parity)
            ~> (~presetTriggerLog.waiting \/ presetTriggerLog.parity # parity)

\* loadPresets() has started after a second schedulePresetLoad call, from a
\* timer the variable no longer referred to
C23_Witness ==
    /\ ~presetTriggerLog.waiting
    /\ ~presetTriggerLog.parity
    /\ presetLoads > 0
    /\ presetLoadTimer = Null

-----------------------------------------------------------------------------
(* The status map under setBotStatus calls, with syncs that remove entries  *)

\* the partial statuses the plugin's parts pass to setBotStatus
StatusUpdates ==
    {[initialized |-> TRUE],
     [templateRoomId |-> 8],
     [templateRoomId |-> 9],
     [error |-> ErrorString],
     [initialized |-> FALSE, templateRoomId |-> 1]}

\* the lists of the syncs: the first bot alone, or no bot
StatusSyncLists ==
    {<<>>, <<[platform |-> Str("p"), selfId |-> Str("s1"), enabled |-> TRUE]>>}

StatusInit ==
    /\ config = <<PersonaConfig(getBotId(Str("p"), Str("s1")), TRUE, ChatLunaPersona),
                  PersonaConfig(getBotId(Str("p"), Str("s2")), TRUE, ChatLunaPersona)>>
    /\ botStatusMap = <<>>
    /\ chathub_room = EmptyBag
    /\ chathub_room_member = EmptyBag
    /\ runs = EmptyBag
    /\ syncCall = NoCall
    /\ TimersAtStart
    /\ CallsAtStart
    /\ CatalogsAtStart
    /\ InterceptorStarted

StatusStep(limit) ==
    \/ \E bot \in HostBots : \E status \in StatusUpdates :
           /\ callSetBotStatus(BotIdOf(bot), status, limit)
           /\ UNCHANGED <<syncCall, updateCall, parseCall, idCalls, timerVars, catalogVars, hookVars>>
    \/ \E mbcBots \in StatusSyncLists :
           /\ callSyncFromMBC(mbcBots)
           /\ statusLog' = forgetRemoved(statusLog, syncCall'.result.removed)
           /\ UNCHANGED <<updateCall, parseCall, idCalls, timerVars, catalogVars, hookVars>>

StatusNext == StatusStep(MaxStatusCalls)

StatusSpec == StatusInit /\ [][StatusNext]_vars

\* the fields of a RuntimeStatus record
StatusFields == {"botId", "platform", "initialized", "templateRoomId", "error"}

CallsOn(botId) == SelectSeq(statusLog, LAMBDA call : call.botId = botId)

Mentions(calls, field) == {k \in 1..Len(calls) : field \in DOMAIN calls[k].status}

\* C13: for the setBotStatus calls made on an identity since it was last
\* removed, every field some call mentioned holds the value of the latest
\* call that mentioned it, botId, platform and initialized hold their
\* defaults when no call mentioned them, and any other unmentioned field is
\* absent.
C13_StatusMergeKeepsUnmentionedFields ==
    \A bot \in HostBots :
        LET botId == BotIdOf(bot)
            calls == CallsOn(botId)
        IN  calls # <<>> =>
              /\ botId \in DOMAIN botStatusMap
              /\ \A field \in StatusFields :
                    IF Mentions(calls, field) # {}
                    THEN /\ field \in DOMAIN botStatusMap[botId]
                         /\ botStatusMap[botId][field] =
                                calls[SetMax(Mentions(calls, field))].status[field]
                    ELSE CASE field = "initialized" ->
                                  /\ field \in DOMAIN botStatusMap[botId]
                                  /\ botStatusMap[botId][field] = FALSE
                           [] field = "botId" ->
                                  /\ field \in DOMAIN botStatusMap[botId]
                                  /\ botStatusMap[botId][field] = botId
                           [] field = "platform" ->
                                  /\ field \in DOMAIN botStatusMap[botId]
                                  /\ botStatusMap[botId][field] = bot.platform
                           [] OTHER -> field \notin DOMAIN botStatusMap[botId]

\* three partial updates on one identity, each naming another field
C13_Witness ==
    LET botId == getBotId(Str("p"), Str("s1")) IN
    /\ Len(CallsOn(botId)) = 3
    /\ botId \in DOMAIN botStatusMap
    /\ botStatusMap[botId] =
           [botId |-> botId, platform |-> Str("p"), initialized |-> TRUE,
            templateRoomId |-> 8, error |-> ErrorString]

-----------------------------------------------------------------------------
(* The catalogs under refreshes that run one after another                  *)

\* what ChatLuna's getAllPreset(true) may hold: one string per preset, its
\* trigger keywords joined by ", "
ChatLunaPresetLists ==
    {<<>>,
     <<Str("a")>>,
     <<Str("a"), Str("b")>>,
     <<Str("b"), Str("a")>>,
     <<Str("a"), <<"a", Comma, Space, "b">>>>}

ChatLunaProviders == {Unavailable, Throws} \cup {Value(list) : list \in ChatLunaPresetLists}

CharacterProviders == {Unavailable, Throws, Value(<<>>), Value(<<Str("y")>>)}

ModelProviders ==
    {Throws, Value(<<Str("m1")>>), Value(<<Str("m1"), Str("m2")>>),
     Value(<<Str("m2"), Str("m1")>>), Value(<<Str("m1"), Str("m1")>>)}

CatalogInit ==
    /\ config = <<>>
    /\ botStatusMap = <<>>
    /\ chathub_room = EmptyBag
    /\ chathub_room_member = EmptyBag
    /\ runs = EmptyBag
    /\ syncCall = NoCall
    /\ TimersAtStart
    /\ CallsAtStart
    /\ CatalogsAtStart
    /\ InterceptorStarted

\* the registry, the store, the timers and the logged calls take no part
CatalogFrame == UNCHANGED <<provVars, syncCall, timerVars, callVars, hookVars>>

CatalogStep(limit) ==
    \/ \E chatluna \in ChatLunaProviders : loadPresetsStarts(chatluna, limit) /\ CatalogFrame
    \/ \E r \in BagToSet(refreshRuns) : \E character \in CharacterProviders :
           loadPresetsReturns(r, character) /\ CatalogFrame
    \/ \E available \in BOOLEAN : loadModelsStarts(available, limit) /\ CatalogFrame
    \/ \E r \in BagToSet(refreshRuns) : \E provider \in ModelProviders :
           loadModelsReturns(r, provider) /\ CatalogFrame

\* each refresh ends before the next starts
CatalogNext == CatalogStep(1)

CatalogSpec == CatalogInit /\ [][CatalogNext]_vars

\* the catalog a refresh run works on
CatalogOf(r) == IF r.op = "loadPresets" THEN "presets" ELSE "models"

\* C14 (as claimed): a refresh that ends with the same set of qualified names
\* as the refresh of that catalog before it calls neither updatePresetOptions
\* nor updateModelOptions.
C14_SameNamesNoNotification ==
    [][\A r \in BagToSet(refreshRuns) :
          ( /\ refreshRuns' = refreshRuns (-) SetToBag({r})
            /\ refreshLog[CatalogOf(r)].done
            /\ refreshLog'[CatalogOf(r)].names = refreshLog[CatalogOf(r)].names )
          => ~refreshLog'[CatalogOf(r)].notified]_vars

\* the entries a provider's answer stands for (none when it failed or is not
\* there)
AnsweredChatLuna(provider) ==
    IF provider.state = "value"
    THEN {chatLunaPresetOf(provider.value[i]) : i \in 1..Len(provider.value)}
    ELSE {}

AnsweredCharacter(provider) ==
    IF provider.state = "value"
    THEN {characterPresetOf(provider.value[i]) : i \in 1..Len(provider.value)}
    ELSE {}

Range(list) == {list[i] : i \in 1..Len(list)}

PresetRunInFlight(id) ==
    \E r \in BagToSet(refreshRuns) : r.id = id /\ r.op = "loadPresets"

\* C21: a loadPresets invocation that is no longer in flight has run to its
\* comparison, whichever provider threw, and the list it compared with the
\* cache holds every entry of each provider that answered.
C21_ProviderFailureIsIsolated ==
    \A id \in DOMAIN presetRunLog.of :
        LET run == presetRunLog.of[id]
        IN  /\ run.done \/ PresetRunInFlight(id)
            /\ run.done =>
                   /\ AnsweredChatLuna(run.chatluna) \subseteq Range(run.compared)
                   /\ AnsweredCharacter(run.character) \subseteq Range(run.compared)

\* one provider threw, the other answered, and the refresh compared the
\* other's entries
C21_Witness ==
    \E id \in DOMAIN presetRunLog.of :
        LET run == presetRunLog.of[id]
        IN  /\ run.done
            /\ \/ run.chatluna.state = "throws" /\ AnsweredCharacter(run.character) # {}
               \/ run.character.state = "throws" /\ AnsweredChatLuna(run.chatluna) # {}
            /\ run.compared # <<>>

-----------------------------------------------------------------------------
(* parsePresetName on every preset name of up to MaxNameLen pieces           *)

\* the pieces of a preset name: the two source tags, another run of
\* characters, the separator
NamePieces == {"chatluna", "character", "x", Colon}

PresetNames == SeqsUpTo(NamePieces, MaxNameLen)

ParseInit ==
    /\ config = <<>>
    /\ botStatusMap = <<>>
    /\ chathub_room = EmptyBag
    /\ chathub_room_member = EmptyBag
    /\ runs = EmptyBag
    /\ syncCall = NoCall
    /\ TimersAtStart
    /\ statusLog = <<>>
    /\ updateCall = NoUpdate
    /\ parseCall \in {[NoParse EXCEPT !.presetName = presetName] :
                         presetName \in PresetNames}
    /\ idCalls = <<>>
    /\ CatalogsAtStart
    /\ InterceptorStarted

ParseNext ==
    /\ callParsePresetName
    /\ UNCHANGED <<provVars, syncCall, timerVars, statusLog, updateCall, idCalls>>
    /\ UNCHANGED <<catalogVars, hookVars>>

ParseSpec == ParseInit /\ [][ParseNext]_vars

ColonsOf(str) == {i \in 1..Len(str) : str[i] = Colon}

\* C15 (as claimed): parsePresetName(s) is (suffix, prefix) when s holds
\* exactly one ':' and the prefix is chatluna or character, and (s, chatluna)
\* in every other case: no colon, unknown prefix, more than one colon.
C15_ParsePresetName ==
    parseCall.called =>
        LET s      == parseCall.presetName
            k      == IF ColonsOf(s) = {} THEN 0 ELSE MinOf(ColonsOf(s))
            prefix == SubSeq(s, 1, k - 1)
            suffix == SubSeq(s, k + 1, Len(s))
        IN  IF /\ Cardinality(ColonsOf(s)) = 1
               /\ prefix \in {PresetSource_ChatLuna, PresetSource_Character}
            THEN parseCall.result = [name |-> suffix, source |-> prefix]
            ELSE parseCall.result = [name |-> s, source |-> PresetSource_ChatLuna]

-----------------------------------------------------------------------------
(* Provisioning after a restart: the store may hold the template room an    *)
(* earlier session of the plugin wrote for the first bot                     *)

EarlierRoom ==
    newRoomOf(getBotId(Str("p"), Str("s1")),
              PersonaConfig(getBotId(Str("p"), Str("s1")), TRUE, ChatLunaPersona),
              Str("s1"), 0)

RestartStores ==
    {[rooms |-> table, members |-> EmptyBag] : table \in InitialRoomTables}
    \cup {[rooms   |-> SetToBag({EarlierRoom}),
           members |-> SetToBag({newMemberOf(Str("s1"), EarlierRoom)})]}

RestartInit ==
    /\ config \in InitialRegistries
    /\ botStatusMap = <<>>
    /\ \E store \in RestartStores :
           /\ chathub_room = store.rooms
           /\ chathub_room_member = store.members
    /\ runs = EmptyBag
    /\ syncCall = NoCall
    /\ TimersAtStart
    /\ CallsAtStart
    /\ CatalogsAtStart
    /\ InterceptorListening

RestartSpec == RestartInit /\ [][Next]_vars

\* the preset names a source tag "character" before its only separator
IsCharacterPreset(preset) ==
    Len(preset) = 3 /\ preset[1] = "character" /\ preset[2] = Colon /\ preset[3] # Colon

\* the rooms named after the identity or owned by its selfId
RoomRecordsOf(bot) ==
    CountRows(chathub_room,
              LAMBDA row : \/ row.roomName = templateRoomName(BotIdOf(bot))
                           \/ row.roomMasterId = bot.selfId)

MemberRecordsOf(bot) ==
    CountRows(chathub_room_member, LAMBDA m : m.userId = bot.selfId)

\* the step ends run r: the handler has returned
Ends(r) == runs' = runs (-) SetToBag({r})

\* C16: for an enabled identity with a character preset no step adds a room
\* or a membership of that identity, whatever the store holds and whether or
\* not its calls fail, and when the handler returns initialized is true.
C16_CharacterPresetGetsNoRoom ==
    [][\A bot \in HostBots :
          LET botConfig == getBotConfig(BotIdOf(bot))
          IN  (botConfig.enabled /\ IsCharacterPreset(botConfig.preset)) =>
                /\ RoomRecordsOf(bot)' = RoomRecordsOf(bot)
                /\ MemberRecordsOf(bot)' = MemberRecordsOf(bot)
                /\ \A r \in BagToSet(runs) :
                      (r.botId = BotIdOf(bot) /\ Ends(r)) =>
                          /\ r.botId \in DOMAIN botStatusMap'
                          /\ botStatusMap'[r.botId].initialized = TRUE]_vars

\* the handler of a character identity has run through the full read and
\* returned: initialized, no error, no room
C16_Witness ==
    \E bot \in HostBots :
        /\ IsCharacterPreset(getBotConfig(BotIdOf(bot)).preset)
        /\ hasBotStatus(BotIdOf(bot))
        /\ botStatusMap[BotIdOf(bot)].initialized
        /\ "error" \notin DOMAIN botStatusMap[BotIdOf(bot)]
        /\ "templateRoomId" \notin DOMAIN botStatusMap[BotIdOf(bot)]
        /\ ~InFlight(BotIdOf(bot))
        /\ RoomRecordsOf(bot) = 0

\* C17 (as claimed): an enabled identity whose persona is unconfigured
\* (preset = "" and model = "") gets no room record and no membership record.
C17_UnconfiguredGetsNoRoom ==
    \A bot \in HostBots :
        LET botConfig == getBotConfig(BotIdOf(bot))
        IN  (botConfig.enabled /\ botConfig.preset = <<>> /\ botConfig.model = <<>>) =>
              /\ RoomRecordsOf(bot) = 0
              /\ MemberRecordsOf(bot) = 0

\* C18 (as claimed): when no provisioning run is in flight, every room this
\* system wrote has exactly one membership record with its roomId, and that
\* record has permission owner and the selfId of the room's identity.
C18_OneOwnerMembershipPerRoom ==
    runs = EmptyBag =>
        \A row \in BagToSet(chathub_room) :
            IsTemplateRoom(row) =>
              /\ CountRows(chathub_room_member, LAMBDA m : m.roomId = row.roomId) = 1
              /\ \A m \in BagToSet(chathub_room_member) :
                    m.roomId = row.roomId =>
                        m.roomPermission = "owner" /\ m.userId = row.roomMasterId

\* C19: a step in which a store call of a run throws ends the run - the
\* handler returns, nothing is left in flight for it - with the error string
\* in the identity's RuntimeStatus.error; the tables, the registry and the
\* status records of the other identities are as before.
C19_StoreFailureEndsInStatusError ==
    [][\A r \in BagToSet(runs) :
          StoreCallFails(r) =>
              /\ Ends(r)
              /\ r.botId \in DOMAIN botStatusMap'
              /\ "error" \in DOMAIN botStatusMap'[r.botId]
              /\ botStatusMap'[r.botId].error = ErrorString
              /\ chathub_room' = chathub_room
              /\ chathub_room_member' = chathub_room_member
              /\ config' = config
              /\ \A id \in DOMAIN botStatusMap' \ {r.botId} :
                    id \in DOMAIN botStatusMap /\ botStatusMap'[id] = botStatusMap[id]]_vars

\* the membership insert of a run has failed: the handler has returned, the
\* error is recorded
C19_Witness ==
    \E bot \in HostBots :
        /\ hasBotStatus(BotIdOf(bot))
        /\ "error" \in DOMAIN botStatusMap[BotIdOf(bot)]
        /\ botStatusMap[BotIdOf(bot)].error = ErrorString
        /\ ~InFlight(BotIdOf(bot))
        /\ RoomsOf(BotIdOf(bot)) = 1
        /\ MemberRecordsOf(bot) = 0

-----------------------------------------------------------------------------
(* The registry under syncs and console edits                               *)

CharacterPersona ==
    [preset |-> <<"character", Colon, "y">>, model |-> Str("m"), chatMode |-> Str("chat")]

\* the entries the console passes to updateBotConfig
RegistryEdits ==
    {PersonaConfig(getBotId(Str("p"), selfId), enabled, persona) :
        selfId \in {Str("s1"), Str("s2")}, enabled \in {TRUE},
        persona \in {ChatLunaPersona, CharacterPersona}}

\* the lists of the syncs: the two bots, in any order, named once or twice
RegistrySyncLists ==
    SeqsUpTo([platform : {Str("p")}, selfId : {Str("s1"), Str("s2")}, enabled : BOOLEAN],
             MaxList)

RegistryInitials ==
    {<<>>,
     <<PersonaConfig(getBotId(Str("p"), Str("s1")), TRUE, ChatLunaPersona),
       PersonaConfig(getBotId(Str("p"), Str("s2")), FALSE, UnconfiguredPersona)>>}

RegistryInit ==
    /\ config \in RegistryInitials
    /\ botStatusMap = <<>>
    /\ chathub_room = EmptyBag
    /\ chathub_room_member = EmptyBag
    /\ runs = EmptyBag
    /\ syncCall = NoCall
    /\ TimersAtStart
    /\ CallsAtStart
    /\ CatalogsAtStart
    /\ InterceptorStarted

\* syncCall and updateCall tell which call the last one was
RegistryNext ==
    \/ \E mbcBots \in RegistrySyncLists :
           /\ callSyncFromMBC(mbcBots)
           /\ updateCall' = NoUpdate
           /\ UNCHANGED <<statusLog, parseCall, idCalls, timerVars, catalogVars, hookVars>>
    \/ \E botConfig \in RegistryEdits :
           /\ callUpdateBotConfig(botConfig)
           /\ syncCall' = NoCall
           /\ UNCHANGED <<statusLog, parseCall, idCalls, timerVars, catalogVars, hookVars>>

RegistrySpec == RegistryInit /\ [][RegistryNext]_vars

\* C20: every syncFromMBC and updateBotConfig call leaves the botIds of the
\* registry pairwise distinct; updateBotConfig(c) puts c in the place of the
\* entry with c.botId when there is one and at the end otherwise, and leaves
\* every other entry as it was.
C20_BotIdsStayUniqueUnderUpsert ==
    [][/\ DistinctBotIds(config')
       /\ updateCall'.called =>
              LET c    == updateCall'.config
                  hits == {i \in 1..Len(config) : config[i].botId = c.botId}
              IN  IF hits # {}
                  THEN /\ Len(config') = Len(config)
                       /\ \A i \in 1..Len(config) :
                              config'[i] = IF i \in hits THEN c ELSE config[i]
                  ELSE config' = Append(config, c)]_vars

\* an edit has replaced the first of two entries, after a sync had changed
\* the second
C20_Witness ==
    /\ updateCall.called
    /\ Len(config) = 2
    /\ config[1] = updateCall.config
    /\ config[1].preset = CharacterPersona.preset
    /\ config[2].botId = getBotId(Str("p"), Str("s2"))
    /\ config[2].enabled

-----------------------------------------------------------------------------
(* The RoomInterceptor's listeners under 'chatluna/ready' events, status     *)
(* events and stop()                                                         *)

InterceptorInit ==
    /\ config = <<PersonaConfig(getBotId(Str("p"), Str("s1")), TRUE, ChatLunaPersona),
                  PersonaConfig(getBotId(Str("p"), Str("s2")), TRUE, ChatLunaPersona)>>
    /\ botStatusMap = <<>>
    /\ chathub_room = EmptyBag
    /\ chathub_room_member = EmptyBag
    /\ runs = EmptyBag
    /\ syncCall = NoCall
    /\ TimersAtStart
    /\ CallsAtStart
    /\ CatalogsAtStart
    /\ InterceptorStarted

InterceptorFrame == UNCHANGED <<syncCall, timerVars, callVars, catalogVars>>

InterceptorStep(readyLimit, runLimit) ==
    \/ roomOnChatLunaReady(readyLimit) /\ InterceptorFrame
    \/ \E bot \in HostBots : emitBotStatusUpdated(bot, runLimit) /\ InterceptorFrame
    \/ stop /\ InterceptorFrame
    \/ \E r \in BagToSet(runs) : lookupReturns(r, TRUE) /\ ProvisionFrame
    \/ \E r \in BagToSet(runs) : readAllReturns(r, TRUE) /\ ProvisionFrame
    \/ \E r \in BagToSet(runs) : createRoomReturns(r, TRUE) /\ ProvisionFrame
    \/ \E r \in BagToSet(runs) : createMemberReturns(r, TRUE) /\ ProvisionFrame

InterceptorNext == InterceptorStep(MaxReady, MaxRuns)

InterceptorSpec == InterceptorInit /\ [][InterceptorNext]_vars

\* C24: once stop() has returned, the interceptor has no listener subscribed,
\* neither of 'chatluna/ready' nor of 'bot-status-updated', however many
\* 'chatluna/ready' events came before; no status event after it invokes a
\* handler.
C24_NoListenerAfterStop ==
    interceptorLog.stopped =>
        /\ listeners = EmptyBag
        /\ interceptorLog.invokedAfterStop = 0

\* stop() has returned after several 'chatluna/ready' events, and a status
\* event has been delivered since
C24_Witness ==
    /\ interceptorLog.stopped
    /\ interceptorLog.ready >= 2
    /\ interceptorLog.deliveredAfterStop
    /\ interceptorLog.invoked = 0

\* C25 (as claimed): at most one 'bot-status-updated' listener of the
\* interceptor is subscribed, so one status event invokes at most one handler.
C25_AtMostOneStatusListener ==
    /\ subscribed(BotStatusListener) <= 1
    /\ interceptorLog.invoked <= 1

-----------------------------------------------------------------------------
(* getBotId and parseBotId on every platform and selfId of up to MaxIdLen    *)
(* pieces, two identities at a time                                          *)

PlatformStrings == SeqsUpTo({"p", Colon}, MaxIdLen)

SelfIdStrings == SeqsUpTo({"s", Colon}, MaxIdLen)

IdInit ==
    /\ config = <<>>
    /\ botStatusMap = <<>>
    /\ chathub_room = EmptyBag
    /\ chathub_room_member = EmptyBag
    /\ runs = EmptyBag
    /\ syncCall = NoCall
    /\ TimersAtStart
    /\ CallsAtStart
    /\ CatalogsAtStart
    /\ InterceptorStarted

IdNext ==
    /\ \E platform \in PlatformStrings : \E selfId \in SelfIdStrings :
           callGetBotId(platform, selfId, 2)
    /\ UNCHANGED <<provVars, syncCall, timerVars, catalogVars, hookVars>>

IdSpec == IdInit /\ [][IdNext]_vars

\* C26 (as claimed): parseBotId(getBotId(p, s)) = (p, s) for every platform p
\* and selfId s, with or without ':' in them, and two different (p, s) never
\* get the same botId or the same room name.
C26_BotIdRoundTrips ==
    /\ \A i \in 1..Len(idCalls) :
           idCalls[i].parsed = [platform |-> idCalls[i].platform, selfId |-> idCalls[i].selfId]
    /\ \A i, j \in 1..Len(idCalls) :
           <<idCalls[i].platform, idCalls[i].selfId>> # <<idCalls[j].platform, idCalls[j].selfId>>
               => /\ idCalls[i].botId # idCalls[j].botId
                  /\ idCalls[i].roomName # idCalls[j].roomName

-----------------------------------------------------------------------------
(* Provisioning while the registry is synced                                 *)

RaceInit ==
    /\ config = <<PersonaConfig(getBotId(Str("p"), Str("s1")), TRUE, ChatLunaPersona),
                  PersonaConfig(getBotId(Str("p"), Str("s2")), TRUE, ChatLunaPersona)>>
    /\ botStatusMap = <<>>
    /\ chathub_room = EmptyBag
    /\ chathub_room_member = EmptyBag
    /\ runs = EmptyBag
    /\ syncCall = NoCall
    /\ TimersAtStart
    /\ CallsAtStart
    /\ CatalogsAtStart
    /\ InterceptorListening

\* getBots() of the controller: both bots, the second alone, or none
RaceSyncLists ==
    {<<>>,
     <<[platform |-> Str("p"), selfId |-> Str("s2"), enabled |-> TRUE]>>,
     <<[platform |-> Str("p"), selfId |-> Str("s1"), enabled |-> TRUE],
       [platform |-> Str("p"), selfId |-> Str("s2"), enabled |-> TRUE]>>}

\* a sync may come between any two steps of a provisioning run
RaceNext ==
    \/ ProvisionStep(BOOLEAN, 1)
    \/ \E mbcBots \in RaceSyncLists :
           /\ callSyncFromMBC(mbcBots)
           /\ UNCHANGED <<timerVars, callVars, catalogVars, hookVars>>

RaceSpec == RaceInit /\ [][RaceNext]_vars

\* C27 (as claimed): every status record belongs to an identity that has a
\* persona configuration in the registry, also when a sync removes the
\* identity while a provisioning run for it waits for the record store.
C27_StatusOnlyForRegistryIdentities ==
    \A botId \in DOMAIN botStatusMap : botId \in BotIds(config)

-----------------------------------------------------------------------------
(* syncFromMBC called again with the list of the call before                 *)

\* the next call of syncFromMBC gets the list the last call got
repeatSyncFromMBC ==
    /\ syncCall.called
    /\ callSyncFromMBC(syncCall.mbcBots)

RepeatNext ==
    \/ /\ ~syncCall.called
       /\ \E mbcBots \in MbcBotLists : callSyncFromMBC(mbcBots)
       /\ UNCHANGED <<timerVars, callVars, catalogVars, hookVars>>
    \/ /\ repeatSyncFromMBC
       /\ UNCHANGED <<timerVars, callVars, catalogVars, hookVars>>

RepeatSpec == SyncInit /\ [][RepeatNext]_vars

\* C28 (as claimed): a call of syncFromMBC with the list of the call right
\* before it returns no added, no updated and no removed entry and leaves the
\* registry and the status map as they are, duplicates in the list or not.
C28_SyncIsIdempotent ==
    [][(syncCall.called /\ syncCall'.called /\ syncCall'.mbcBots = syncCall.mbcBots)
       => /\ syncCall'.result = [added |-> <<>>, updated |-> <<>>, removed |-> <<>>]
          /\ config' = config
          /\ botStatusMap' = botStatusMap]_vars

-----------------------------------------------------------------------------
(* loadPresets invocations that overlap: one from the preset-load timer and  *)
(* one from the charon.reload command, each waiting for the character        *)
(* provider                                                                  *)

OverlapStep(limit) ==
    \/ \E chatluna \in ChatLunaProviders : loadPresetsStarts(chatluna, limit) /\ CatalogFrame
    \/ \E r \in BagToSet(refreshRuns) : \E character \in CharacterProviders :
           loadPresetsReturns(r, character) /\ CatalogFrame

\* two invocations at a time; the character provider answers them in any order
OverlapNext == OverlapStep(2)

OverlapSpec == CatalogInit /\ [][OverlapNext]_vars

\* C29 (as claimed): once every loadPresets invocation has ended, the cached
\* names are the names the providers gave the invocation that started last.
C29_CacheIsOfTheLastStartedRun ==
    (refreshRuns = EmptyBag /\ presetRunLog.last # 0) =>
        Range(namesOf(presetCache)) =
            Range(namesOf(presetRunLog.of[presetRunLog.last].compared))

=============================================================================
